---- MODULE Spec2Model ----
(***************************************************************************)
(* Model of the genesis Tree manipulation functions                        *)
(* (lib/genesis/tree/function/manipulation.cpp).                           *)
(*                                                                         *)
(* A Tree owns three vectors of unique pointers (links_, nodes_, edges_).  *)
(* Objects are modelled by identities (positive integers); a vector is the *)
(* sequence of the identities it holds, and the fields of the objects are  *)
(* functions from identities to records.  A pointer to an object that has  *)
(* been destroyed is the value Dangling.  Elements of another tree are     *)
(* negative identities.                                                    *)
(***************************************************************************)
EXTENDS Integers, Sequences, FiniteSets, TLC

\* Largest number of nodes a tree of the model may have.
MaxNodes == 4

\* Largest number of deletions in one run of the model.
MaxDeletions == 1

VARIABLES tree, last, deletions

vars == <<tree, last, deletions>>

-----------------------------------------------------------------------------
\* Pointers and containers

\* A pointer whose pointee has been destroyed (erase of the owning unique_ptr).
Dangling == 0

Range(s) == { s[i] : i \in 1..Len(s) }

\* utils::make_unique: a new object, distinct from all objects in `used`.
RECURSIVE FreshFrom(_, _)
FreshFrom(used, i) == IF i \in used THEN FreshFrom(used, i + 1) ELSE i

Fresh(used) == FreshFrom(used, 1)

\* Elements of some other tree: they carry a stored index as well.
ForeignIds == { -1, -2 }

ForeignIndex(x) == (-x) - 1

link_count(T) == Len(T.links)
node_count(T) == Len(T.nodes)
edge_count(T) == Len(T.edges)

link_at(T, i) == T.links[i + 1]
node_at(T, i) == T.nodes[i + 1]
edge_at(T, i) == T.edges[i + 1]

LinkIndex(T, l) == IF l < 0 THEN ForeignIndex(l) ELSE T.link[l].index
NodeIndex(T, n) == IF n < 0 THEN ForeignIndex(n) ELSE T.node[n].index
EdgeIndex(T, e) == IF e < 0 THEN ForeignIndex(e) ELSE T.edge[e].index

\* belongs_to( element, tree ): the tree holds this very object at the
\* element's stored index.
belongs_to_link(T, l) ==
    /\ LinkIndex(T, l) < link_count(T)
    /\ link_at(T, LinkIndex(T, l)) = l

belongs_to_node(T, n) ==
    /\ NodeIndex(T, n) < node_count(T)
    /\ node_at(T, NodeIndex(T, n)) = n

belongs_to_edge(T, e) ==
    /\ EdgeIndex(T, e) < edge_count(T)
    /\ edge_at(T, EdgeIndex(T, e)) = e

\* Tree::root_link() / root_node(): resolved through the stored link index.
RootInRange(T) == T.root_link_index < link_count(T)

root_link(T) == link_at(T, T.root_link_index)

root_node(T) == T.link[root_link(T)].node

\* The links of a ring in "next" order, starting at `start`. The walk gives
\* up (and returns the empty sequence) if it does not come back to `start`.
RECURSIVE RingWalk(_, _, _, _)
RingWalk(T, start, cur, acc) ==
    IF cur \notin DOMAIN T.link \/ Len(acc) > link_count(T) THEN << >>
    ELSE IF T.link[cur].next = start THEN Append(acc, cur)
    ELSE RingWalk(T, start, T.link[cur].next, Append(acc, cur))

\* node_links( node ): the ring of a node, starting at its primary link.
node_links(T, n) == RingWalk(T, T.node[n].link, T.node[n].link, << >>)

\* degree( node ): the number of links of the node's ring.
degree(T, n) == Len(node_links(T, n))

\* The node's primary link can be followed (it points to a live link).
HasLink(T, n) == T.node[n].link \in DOMAIN T.link

\* degree_differs that lets every node of at least the required degree pass.
degree_differs_BelowOnly(T, target_node, required) == degree(T, target_node) < required

\* if( degree( target_node ) != 1 ), if( degree( target_node ) != 2 ): the
\* degree checks of delete_leaf_node and delete_linear_node.
degree_differs(T, target_node, required) == degree(T, target_node) # required

\* The results of an operation: the tree it leaves, the error it throws, the
\* node it returns and the arguments it passed to the callback.
Ok(T, ret, cb) ==
    [t |-> T, err |-> "none", ret |-> ret, cb |-> cb, with_cb |-> FALSE, at_cb |-> << >>]

\* Throw that returns to the caller as if nothing had happened.
Throw_Swallowed(T, what) ==
    [t |-> T, err |-> "none", ret |-> Dangling, cb |-> << >>, with_cb |-> FALSE, at_cb |-> << >>]

Throw(T, what) ==
    [t |-> T, err |-> what, ret |-> Dangling, cb |-> << >>, with_cb |-> FALSE, at_cb |-> << >>]

\* The call dereferences a dangling pointer or does not return.
Undefined(T) ==
    [t |-> T, err |-> "undefined", ret |-> Dangling, cb |-> << >>, with_cb |-> FALSE, at_cb |-> << >>]

-----------------------------------------------------------------------------
\* Add Nodes

\* last_link_of without the loop: the link itself.
last_link_of_NoWalk(T, up_link) == up_link

\* The last link of the ring that starts at up_link (the link before it).
last_link_of(T, up_link) ==
    LET ring == RingWalk(T, up_link, up_link, << >>)
    IN  ring[Len(ring)]

add_new_node_at_node(T, target_node) ==
    IF ~ belongs_to_node(T, target_node) THEN Throw(T, "runtime_error")
    ELSE IF ~ HasLink(T, target_node) THEN Undefined(T)
    ELSE
    LET con_link  == Fresh(DOMAIN T.link)
        end_link  == Fresh(DOMAIN T.link \cup {con_link})
        end_node  == Fresh(DOMAIN T.node)
        con_edge  == Fresh(DOMAIN T.edge)
        up_link   == T.node[target_node].link
        last_link == last_link_of(T, up_link)
        \* populate con_link, splice it in between last_link and up_link
        links1 == [T.link EXCEPT ![last_link].next = con_link]
                    @@ (con_link :> [index |-> link_count(T),
                                     node  |-> target_node,
                                     edge  |-> con_edge,
                                     outer |-> end_link,
                                     next  |-> up_link])
        \* populate end_link; links.size() has grown by one
        links2 == links1
                    @@ (end_link :> [index |-> link_count(T) + 1,
                                     node  |-> end_node,
                                     edge  |-> con_edge,
                                     next  |-> end_link,
                                     outer |-> con_link])
        nodes1 == T.node @@ (end_node :> [index |-> node_count(T),
                                          link  |-> end_link])
        edges1 == T.edge @@ (con_edge :> [index  |-> edge_count(T),
                                          link_p |-> con_link,
                                          link_s |-> end_link])
    IN  Ok([T EXCEPT !.links = Append(Append(T.links, con_link), end_link),
                     !.link  = links2,
                     !.nodes = Append(T.nodes, end_node),
                     !.node  = nodes1,
                     !.edges = Append(T.edges, con_edge),
                     !.edge  = edges1],
           end_node, << >>)

\* The callback of an edge operation is either absent or records the two
\* edges it is called with.
CallbackArgs(with_cb, e1, e2) == IF with_cb THEN << e1, e2 >> ELSE << >>

\* The record of a call that was given the callback or not, and the tree as
\* it was at each invocation of the callback.
WithCallback(res, with_cb, seen) ==
    [res EXCEPT !.with_cb = with_cb,
                !.at_cb = IF with_cb THEN << seen >> ELSE << >>]

\* adjust_edges called before the existing elements are adjusted.
tree_at_adjust_edges_BeforeAdjusting(populated, adjusted) == populated

\* add_new_node( tree, edge ) calls adjust_edges as its last statement, on
\* the tree with the new elements populated and the existing ones adjusted.
tree_at_adjust_edges(populated, adjusted) == adjusted

\* The adjustment that leaves the former secondary link at the target edge.
adjust_existing_KeepsEdgeOfSecondary(T, target_edge, pri_link, sec_link, sec_edge) ==
    LET old_p == T.edge[target_edge].link_p
        old_s == T.edge[target_edge].link_s
        T1 == [T  EXCEPT !.link[old_p].outer = pri_link]
        T2 == [T1 EXCEPT !.link[old_s].outer = sec_link]
    IN  [T2 EXCEPT !.edge[target_edge].link_s = pri_link]

\* Finally adjust the existing tree elements.
adjust_existing(T, target_edge, pri_link, sec_link, sec_edge) ==
    LET old_p == T.edge[target_edge].link_p
        old_s == T.edge[target_edge].link_s
        T1 == [T  EXCEPT !.link[old_p].outer = pri_link]
        T2 == [T1 EXCEPT !.link[old_s].outer = sec_link]
        T3 == [T2 EXCEPT !.link[old_s].edge  = sec_edge]
    IN  [T3 EXCEPT !.edge[target_edge].link_s = pri_link]

add_new_node_at_edge(T, target_edge, with_cb) ==
    IF ~ belongs_to_edge(T, target_edge)
    THEN [Throw(T, "runtime_error") EXCEPT !.with_cb = with_cb]
    ELSE IF T.edge[target_edge].link_p \notin DOMAIN T.link
            \/ T.edge[target_edge].link_s \notin DOMAIN T.link THEN Undefined(T)
    ELSE
    LET pri_link == Fresh(DOMAIN T.link)
        sec_link == Fresh(DOMAIN T.link \cup {pri_link})
        mid_node == Fresh(DOMAIN T.node)
        sec_edge == Fresh(DOMAIN T.edge)
        old_p    == T.edge[target_edge].link_p
        old_s    == T.edge[target_edge].link_s
        links1 == T.link
                    @@ (pri_link :> [index |-> link_count(T),
                                     next  |-> sec_link,
                                     outer |-> old_p,
                                     node  |-> mid_node,
                                     edge  |-> target_edge])
                    @@ (sec_link :> [index |-> link_count(T) + 1,
                                     next  |-> pri_link,
                                     outer |-> old_s,
                                     node  |-> mid_node,
                                     edge  |-> sec_edge])
        nodes1 == T.node @@ (mid_node :> [index |-> node_count(T),
                                          link  |-> pri_link])
        edges1 == T.edge @@ (sec_edge :> [index  |-> edge_count(T),
                                          link_p |-> sec_link,
                                          link_s |-> old_s])
        populated == [T EXCEPT !.links = Append(Append(T.links, pri_link), sec_link),
                               !.link  = links1,
                               !.nodes = Append(T.nodes, mid_node),
                               !.node  = nodes1,
                               !.edges = Append(T.edges, sec_edge),
                               !.edge  = edges1]
        adjusted  == adjust_existing(populated, target_edge, pri_link, sec_link, sec_edge)
    IN  WithCallback(Ok(adjusted, mid_node, CallbackArgs(with_cb, target_edge, sec_edge)),
                     with_cb, tree_at_adjust_edges(populated, adjusted))

add_new_leaf_node(T, target_edge, with_cb) ==
    LET mid == add_new_node_at_edge(T, target_edge, with_cb)
    IN  IF mid.err # "none" THEN mid
        ELSE LET leaf == add_new_node_at_node(mid.t, mid.ret)
             IN  [leaf EXCEPT !.cb = mid.cb, !.with_cb = mid.with_cb, !.at_cb = mid.at_cb]

-----------------------------------------------------------------------------
\* Delete Nodes

\* vector::erase( begin() + i ): the element at position i is destroyed, the
\* elements behind it move up by one.
EraseAt(vec, i) == [k \in 1..(Len(vec) - 1) |-> IF k <= i THEN vec[k] ELSE vec[k + 1]]

\* for( i = from; i < count; ++i ) element_at(i).reset_index(i)
Restamp(vec, fields, from) ==
    [x \in DOMAIN fields |->
        IF \E i \in from..(Len(vec) - 1) : vec[i + 1] = x
        THEN [fields[x] EXCEPT !.index = CHOOSE i \in from..(Len(vec) - 1) : vec[i + 1] = x]
        ELSE fields[x]]

\* The objects that left the vectors are destroyed: every pointer to one of
\* them that a surviving object still holds is a dangling pointer.
Scrub(T) ==
    LET LL == Range(T.links)
        NN == Range(T.nodes)
        EE == Range(T.edges)
        P(x, S) == IF x \in S THEN x ELSE Dangling
    IN  [T EXCEPT
            !.link = [l \in LL |-> [index |-> T.link[l].index,
                                    next  |-> P(T.link[l].next, LL),
                                    outer |-> P(T.link[l].outer, LL),
                                    node  |-> P(T.link[l].node, NN),
                                    edge  |-> P(T.link[l].edge, EE)]],
            !.node = [n \in NN |-> [index |-> T.node[n].index,
                                    link  |-> P(T.node[n].link, LL)]],
            !.edge = [e \in EE |-> [index  |-> T.edge[e].index,
                                    link_p |-> P(T.edge[e].link_p, LL),
                                    link_s |-> P(T.edge[e].link_s, LL)]]]

\* tree.reset_root_link_index( root_link->index() ) after links.erase: if the
\* link root_link points to has been erased, the read is a use after free
\* and yields the value `stale`.
ResetRootLinkIndex(T, root_link_ptr, stale) ==
    [T EXCEPT !.root_link_index =
        IF root_link_ptr \in Range(T.links) THEN T.link[root_link_ptr].index ELSE stale]

Min(a, b) == IF a < b THEN a ELSE b
Max(a, b) == IF a < b THEN b ELSE a

\* EraseEdge that adjusts the indices one position too late.
EraseEdge_RestampLate(T, edge_idx) ==
    LET vec == EraseAt(T.edges, edge_idx)
    IN  [T EXCEPT !.edges = vec, !.edge = Restamp(vec, T.edge, edge_idx + 1)]

\* edges.erase( edges.begin() + edge_idx ) and the loop that resets the index
\* of every edge behind the erased position.
EraseEdge(T, edge_idx) ==
    LET vec == EraseAt(T.edges, edge_idx)
    IN  [T EXCEPT !.edges = vec, !.edge = Restamp(vec, T.edge, edge_idx)]

\* EraseTwoLinks with the indices adjusted from the second erased position
\* only.
EraseTwoLinks_RestampFromSecond(T, idx_a, idx_b) ==
    LET first  == Min(idx_a, idx_b)
        second == Max(idx_a, idx_b)
        vec    == EraseAt(EraseAt(T.links, first), second - 1)
    IN  [T EXCEPT !.links = vec, !.link = Restamp(vec, T.link, second - 1)]

\* The two links.erase calls (the smaller index first) and the loop that
\* resets the index of every link from the first erased position on.
EraseTwoLinks(T, idx_a, idx_b) ==
    LET first  == Min(idx_a, idx_b)
        second == Max(idx_a, idx_b)
        vec    == EraseAt(EraseAt(T.links, first), second - 1)
    IN  [T EXCEPT !.links = vec, !.link = Restamp(vec, T.link, first)]

\* nodes.erase( nodes.begin() + node_idx ) and the loop that resets the index
\* of every node behind the erased position.
EraseNode(T, node_idx) ==
    LET vec == EraseAt(T.nodes, node_idx)
    IN  [T EXCEPT !.nodes = vec, !.node = Restamp(vec, T.node, node_idx)]

\* skip_next_link that leaves the ring as it is.
skip_next_link_Forgotten(T, link_ptr) == T

\* link_ptr->reset_next( &link_ptr->next().next() ): the link behind link_ptr
\* leaves the ring.
skip_next_link(T, link_ptr) ==
    [T EXCEPT !.link[link_ptr].next = T.link[T.link[link_ptr].next].next]

delete_leaf_node(T, target_node, stale) ==
    IF ~ belongs_to_node(T, target_node) THEN Throw(T, "runtime_error")
    ELSE IF ~ HasLink(T, target_node) THEN Undefined(T)
    ELSE IF degree_differs(T, target_node, 1) THEN Throw(T, "runtime_error")
    ELSE IF ~ RootInRange(T) THEN Throw(T, "out_of_range")
    ELSE
    LET target_link == T.node[target_node].link
        root_link_ptr == IF T.node[root_node(T)].index = T.node[target_node].index
                         THEN T.link[target_link].outer
                         ELSE root_link(T)
        \* delete the edge
        T1 == EraseEdge(T, T.edge[T.link[target_link].edge].index)
        \* skip the attachment link in the ring of the neighbour
        attach_link == T.link[target_link].outer
        link_ptr == last_link_of(T1, attach_link)
        T2 == skip_next_link(T1, link_ptr)
        \* delete both links
        T3 == EraseTwoLinks(T2, T2.link[attach_link].index,
                                T2.link[T2.link[attach_link].outer].index)
        \* delete the node
        T4 == EraseNode(T3, T3.node[target_node].index)
    IN  Ok(Scrub(ResetRootLinkIndex(T4, root_link_ptr, stale)), Dangling, << >>)

\* connect_adjacent that sets one direction only.
connect_adjacent_OneWay(T, adj_link_p, adj_link_d) ==
    [T EXCEPT !.link[adj_link_p].outer = adj_link_d]

\* Make the links of the two nodes adjacent to a linear node point to each
\* other.
connect_adjacent(T, adj_link_p, adj_link_d) ==
    LET T1 == [T EXCEPT !.link[adj_link_p].outer = adj_link_d]
    IN  [T1 EXCEPT !.link[adj_link_d].outer = adj_link_p]

\* The remaining edge given the root side link as its secondary link too.
adjust_remaining_edge_SecondaryAtRootSide(T2, adj_link_p, adj_link_d, target_node) ==
    LET T3 == [T2 EXCEPT !.edge[T2.link[adj_link_p].edge].link_s = adj_link_p]
        T4 == [T3 EXCEPT !.edge[T3.link[adj_link_d].edge].link_p = adj_link_p]
    IN  [T4 EXCEPT !.link[adj_link_d].edge = T4.link[T4.node[target_node].link].edge]

\* Adjust the pointers to and from the remaining edge.
adjust_remaining_edge(T2, adj_link_p, adj_link_d, target_node) ==
    LET T3 == [T2 EXCEPT !.edge[T2.link[adj_link_p].edge].link_s = adj_link_d]
        T4 == [T3 EXCEPT !.edge[T3.link[adj_link_d].edge].link_p = adj_link_p]
    IN  [T4 EXCEPT !.link[adj_link_d].edge = T4.link[T4.node[target_node].link].edge]

\* adjust_edges called once the neighbours have been rewired.
tree_at_adjust_edges_linear_AfterRewiring(before, rewired) == rewired

\* delete_linear_node calls adjust_edges right after its checks, on the tree
\* as it was passed in.
tree_at_adjust_edges_linear(before, rewired) == before

delete_linear_node(T, target_node, with_cb) ==
    IF ~ belongs_to_node(T, target_node)
    THEN [Throw(T, "runtime_error") EXCEPT !.with_cb = with_cb]
    ELSE IF ~ HasLink(T, target_node) THEN Undefined(T)
    ELSE IF degree_differs(T, target_node, 2)
    THEN [Throw(T, "runtime_error") EXCEPT !.with_cb = with_cb]
    ELSE
    LET pr_link == T.node[target_node].link
        nx_link == T.link[pr_link].next
        cb == CallbackArgs(with_cb, T.link[pr_link].edge, T.link[nx_link].edge)
    IN
    IF ~ RootInRange(T)
    THEN WithCallback([Throw(T, "out_of_range") EXCEPT !.cb = cb],
                      with_cb, tree_at_adjust_edges_linear(T, T))
    ELSE
    LET root_link_ptr == IF T.node[root_node(T)].index = T.node[target_node].index
                         THEN T.link[pr_link].outer
                         ELSE root_link(T)
        adj_link_p == T.link[pr_link].outer
        adj_link_d == T.link[nx_link].outer
        \* adjust the links of the two adjacent nodes to point to each other
        T2 == connect_adjacent(T, adj_link_p, adj_link_d)
        \* adjust the pointers to and from the remaining edge
        T5 == adjust_remaining_edge(T2, adj_link_p, adj_link_d, target_node)
        \* delete the edge, both links of the node, and the node
        T6 == EraseEdge(T5, T5.edge[T5.link[T5.link[pr_link].next].edge].index)
        T7 == EraseTwoLinks(T6, T6.link[pr_link].index,
                                T6.link[T6.link[pr_link].next].index)
        T8 == EraseNode(T7, T7.node[target_node].index)
    IN  WithCallback(Ok(Scrub(ResetRootLinkIndex(T8, root_link_ptr, Dangling)), Dangling, cb),
                     with_cb, tree_at_adjust_edges_linear(T, T5))

\* preorder( subtree ): the nodes of the subtree behind `link`, each given by
\* the link through which the walk enters it; the ring of a node is followed
\* in "next" order from that link.
RECURSIVE preorder_subtree(_, _, _)
preorder_subtree(T, link, fuel) ==
    IF fuel = 0 THEN << >>
    ELSE
    LET ring == RingWalk(T, link, link, << >>)
        visit[k \in 1..Len(ring)] ==
            IF k = 1 THEN << link >>
            ELSE visit[k - 1] \o preorder_subtree(T, T.link[ring[k]].outer, fuel - 1)
    IN  IF Len(ring) = 0 THEN << >> ELSE visit[Len(ring)]

\* is_root( node )
is_root(T, n) == root_node(T) = n

\* The loop that moves the surviving elements of one container to a new
\* container: the old container is walked in index order, in lock step with
\* the sorted deletion list, and every element that is moved is stamped with
\* its new position.
\* The surviving elements moved in reverse order, each stamped with its new
\* position.
move_and_adjust_Reversed(old, del, i, del_idx, new) ==
    LET kept == SelectSeq([k \in 1..Len(old) |-> k],
                          LAMBDA k : \A d \in 1..Len(del) : del[d] # k - 1)
    IN  [k \in 1..Len(kept) |->
            [id |-> old[kept[Len(kept) + 1 - k]], index |-> k - 1]]

RECURSIVE move_and_adjust(_, _, _, _, _)
move_and_adjust(old, del, i, del_idx, new) ==
    IF i >= Len(old) THEN new
    ELSE IF del_idx < Len(del) /\ del[del_idx + 1] = i
         THEN move_and_adjust(old, del, i + 1, del_idx + 1, new)
         ELSE move_and_adjust(old, del, i + 1, del_idx,
                              Append(new, [id |-> old[i + 1], index |-> i - del_idx]))

MovedVector(moved) == [k \in 1..Len(moved) |-> moved[k].id]

MovedFields(fields, moved) ==
    [x \in DOMAIN fields |->
        IF \E k \in 1..Len(moved) : moved[k].id = x
        THEN [fields[x] EXCEPT !.index =
                 moved[CHOOSE k \in 1..Len(moved) : moved[k].id = x].index]
        ELSE fields[x]]

\* The lists of indices that delete_subtree collects.
del_nodes_of(T, walk) == [k \in 1..Len(walk) |-> T.node[T.link[walk[k]].node].index]

del_edges_of(T, walk) == [k \in 1..Len(walk) |-> T.edge[T.link[walk[k]].edge].index]

\* del_links_of that leaves out the outer link of every visited link.
del_links_of_NoOuter(T, walk) == [k \in 1..Len(walk) |-> T.link[walk[k]].index]

del_links_of(T, walk) ==
    [k \in 1..(2 * Len(walk)) |->
        IF k % 2 = 1 THEN T.link[walk[(k + 1) \div 2]].index
        ELSE T.link[T.link[walk[k \div 2]].outer].index]

SortIndices(s) == SortSeq(s, LAMBDA a, b : a < b)

\* The root link moved to the attachment node whether or not the root node
\* is deleted.
root_link_after_AlwaysMoved(T, contains_root, attach_link) == T.link[attach_link].next

\* The link that is the root link after the deletion: the link after the
\* attachment link if the root node is deleted, the root link otherwise.
root_link_after(T, contains_root, attach_link) ==
    IF contains_root THEN T.link[attach_link].next ELSE root_link(T)

delete_subtree(T, subtree_link) ==
    IF ~ belongs_to_link(T, subtree_link) THEN Throw(T, "runtime_error")
    ELSE IF ~ RootInRange(T) THEN Throw(T, "out_of_range")
    ELSE
    LET walk == preorder_subtree(T, subtree_link, node_count(T) + 1)
        del_nodes == SortIndices(del_nodes_of(T, walk))
        del_edges == SortIndices(del_edges_of(T, walk))
        del_links == SortIndices(del_links_of(T, walk))
        contains_root == \E k \in 1..Len(walk) : is_root(T, T.link[walk[k]].node)
        attach_link == T.link[subtree_link].outer
        root_link_ptr == root_link_after(T, contains_root, attach_link)
        link_nc == last_link_of(T, attach_link)
        \* reset the primary link of the attachment node if it is deleted
        T1 == IF T.node[T.link[link_nc].node].link = T.link[link_nc].next
              THEN [T EXCEPT !.node[T.link[link_nc].node].link =
                                 T.link[T.link[link_nc].next].next]
              ELSE T
        \* skip the attachment link in the ring of the attachment node
        T2 == skip_next_link(T1, link_nc)
        new_nodes == move_and_adjust(T2.nodes, del_nodes, 0, 0, << >>)
        new_edges == move_and_adjust(T2.edges, del_edges, 0, 0, << >>)
        new_links == move_and_adjust(T2.links, del_links, 0, 0, << >>)
        T3 == [T2 EXCEPT !.nodes = MovedVector(new_nodes),
                         !.node  = MovedFields(T2.node, new_nodes),
                         !.edges = MovedVector(new_edges),
                         !.edge  = MovedFields(T2.edge, new_edges),
                         !.links = MovedVector(new_links),
                         !.link  = MovedFields(T2.link, new_links)]
        \* The elements that were not moved live until the function returns:
        \* root_link->index() reads the index the link had before.
        T4 == [T3 EXCEPT !.root_link_index = T3.link[root_link_ptr].index]
    IN  Ok(Scrub(T4), Dangling, << >>)

\* delete_node without the case of a linear node: every node that is no leaf
\* goes with its subtree.
delete_node_NoLinearCase(T, target_node, stale) ==
    IF ~ belongs_to_node(T, target_node) THEN Throw(T, "runtime_error")
    ELSE IF ~ HasLink(T, target_node) THEN Undefined(T)
    ELSE IF degree(T, target_node) = 1 THEN delete_leaf_node(T, target_node, stale)
    ELSE delete_subtree(T, T.node[target_node].link)

\* Subtree{ node }: the subtree behind the primary link of the node.
delete_node(T, target_node, stale) ==
    IF ~ belongs_to_node(T, target_node) THEN Throw(T, "runtime_error")
    ELSE IF ~ HasLink(T, target_node) THEN Undefined(T)
    ELSE IF degree(T, target_node) = 1 THEN delete_leaf_node(T, target_node, stale)
    ELSE IF degree(T, target_node) = 2 THEN delete_linear_node(T, target_node, FALSE)
    ELSE delete_subtree(T, T.node[target_node].link)

-----------------------------------------------------------------------------
\* Rerooting

\* reroot_walk that leaves the edges as they are.
RECURSIVE reroot_walk_KeepsEdges(_, _, _, _)
reroot_walk_KeepsEdges(T, cur_link, old_root, fuel) ==
    IF cur_link \notin DOMAIN T.link \/ fuel = 0 THEN Undefined(T)
    ELSE IF T.link[cur_link].node = old_root THEN Ok(T, Dangling, << >>)
    ELSE
    LET up_node      == T.link[T.link[cur_link].outer].node
        to_root_link == T.node[up_node].link
        nodes1       == [T.node EXCEPT ![up_node].link = T.link[cur_link].outer]
    IN  reroot_walk_KeepsEdges([T EXCEPT !.node = nodes1],
                               to_root_link, old_root, fuel - 1)

\* reroot_walk that swaps the two links of an edge without the temporaries:
\* the secondary link is overwritten with the new primary link.
RECURSIVE reroot_walk_SwapWithoutTemp(_, _, _, _)
reroot_walk_SwapWithoutTemp(T, cur_link, old_root, fuel) ==
    IF cur_link \notin DOMAIN T.link \/ fuel = 0 THEN Undefined(T)
    ELSE IF T.link[cur_link].node = old_root THEN Ok(T, Dangling, << >>)
    ELSE
    LET e            == T.link[cur_link].edge
        edges1       == [T.edge EXCEPT ![e].link_p = T.edge[e].link_s]
        up_node      == T.link[T.link[cur_link].outer].node
        to_root_link == T.node[up_node].link
        nodes1       == [T.node EXCEPT ![up_node].link = T.link[cur_link].outer]
    IN  reroot_walk_SwapWithoutTemp([T EXCEPT !.edge = edges1, !.node = nodes1],
                                    to_root_link, old_root, fuel - 1)

\* The loop of reroot: walk from cur_link towards old_root, turning every
\* edge and every node's primary link on the way towards the new root.
RECURSIVE reroot_walk(_, _, _, _)
reroot_walk(T, cur_link, old_root, fuel) ==
    IF cur_link \notin DOMAIN T.link \/ fuel = 0 THEN Undefined(T)
    ELSE IF T.link[cur_link].node = old_root THEN Ok(T, Dangling, << >>)
    ELSE
    LET e            == T.link[cur_link].edge
        link_p_tmp   == T.edge[e].link_p
        link_s_tmp   == T.edge[e].link_s
        edges1       == [T.edge EXCEPT ![e].link_p = link_s_tmp,
                                       ![e].link_s = link_p_tmp]
        up_node      == T.link[T.link[cur_link].outer].node
        to_root_link == T.node[up_node].link
        nodes1       == [T.node EXCEPT ![up_node].link = T.link[cur_link].outer]
    IN  reroot_walk([T EXCEPT !.edge = edges1, !.node = nodes1],
                    to_root_link, old_root, fuel - 1)

\* The number of iterations the loop of reroot makes (-1 if it does not
\* end).
RECURSIVE reroot_iterations(_, _, _, _)
reroot_iterations(T, cur_link, old_root, fuel) ==
    IF cur_link \notin DOMAIN T.link \/ fuel = 0 THEN -1
    ELSE IF T.link[cur_link].node = old_root THEN 0
    ELSE
    LET up_node      == T.link[T.link[cur_link].outer].node
        to_root_link == T.node[up_node].link
        nodes1       == [T.node EXCEPT ![up_node].link = T.link[cur_link].outer]
        rest         == reroot_iterations([T EXCEPT !.node = nodes1],
                                          to_root_link, old_root, fuel - 1)
    IN  IF rest < 0 THEN -1 ELSE rest + 1

\* The iterations of the loop in reroot( tree, at_link ).
reroot_link_iterations(T, at_link) ==
    LET T1 == [T EXCEPT !.root_link_index = T.link[at_link].index,
                        !.node[T.link[at_link].node].link =
                            link_at(T, T.link[at_link].index)]
    IN  reroot_iterations(T1, T.node[T.link[at_link].node].link, root_node(T),
                          2 * link_count(T) + 1)

\* reroot on a link that also moves the new root link to the front of the
\* link container.
reroot_link_RootToFront(T, at_link) ==
    IF ~ belongs_to_link(T, at_link) THEN Throw(T, "runtime_error")
    ELSE IF ~ RootInRange(T) THEN Throw(T, "out_of_range")
    ELSE
    LET old_root == root_node(T)
        cur_link == T.node[T.link[at_link].node].link
        first    == link_at(T, 0)
        T1 == [T EXCEPT !.root_link_index = T.link[at_link].index,
                        !.node[T.link[at_link].node].link =
                            link_at(T, T.link[at_link].index)]
        res == reroot_walk(T1, cur_link, old_root, 2 * link_count(T) + 1)
        front == [res.t EXCEPT
                     !.links = [k \in 1..Len(T.links) |->
                                   IF k = 1 THEN at_link
                                   ELSE IF T.links[k] = at_link THEN first
                                   ELSE T.links[k]],
                     !.link[first].index = T.link[at_link].index,
                     !.link[at_link].index = 0,
                     !.root_link_index = 0]
    IN  [res EXCEPT !.t = front]

\* reroot on a link that leaves the primary link of the link's node alone.
reroot_link_KeepsPrimary(T, at_link) ==
    IF ~ belongs_to_link(T, at_link) THEN Throw(T, "runtime_error")
    ELSE IF ~ RootInRange(T) THEN Throw(T, "out_of_range")
    ELSE
    LET old_root == root_node(T)
        cur_link == T.node[T.link[at_link].node].link
        T1 == [T EXCEPT !.root_link_index = T.link[at_link].index]
    IN  reroot_walk(T1, cur_link, old_root, 2 * link_count(T) + 1)

reroot_link(T, at_link) ==
    IF ~ belongs_to_link(T, at_link) THEN Throw(T, "runtime_error")
    ELSE IF ~ RootInRange(T) THEN Throw(T, "out_of_range")
    ELSE
    LET old_root == root_node(T)
        cur_link == T.node[T.link[at_link].node].link
        T1 == [T EXCEPT !.root_link_index = T.link[at_link].index,
                        !.node[T.link[at_link].node].link =
                            link_at(T, T.link[at_link].index)]
    IN  reroot_walk(T1, cur_link, old_root, 2 * link_count(T) + 1)

reroot_node(T, at_node) ==
    IF ~ belongs_to_node(T, at_node) THEN Throw(T, "runtime_error")
    ELSE IF ~ HasLink(T, at_node) THEN Undefined(T)
    ELSE reroot_link(T, T.node[at_node].link)

reroot_at_node(T, node_index) ==
    IF node_index >= node_count(T) THEN Throw(T, "runtime_error")
    ELSE reroot_node(T, node_at(T, node_index))

\* add_root_node that splits the edge and leaves the root where it is.
add_root_node_NoReroot(T, target_edge) == add_new_node_at_edge(T, target_edge, FALSE)

add_root_node(T, target_edge) ==
    LET mid == add_new_node_at_edge(T, target_edge, FALSE)
    IN  IF mid.err # "none" THEN mid
        ELSE LET rr == reroot_node(mid.t, mid.ret)
             IN  [rr EXCEPT !.ret = IF rr.err = "none" THEN mid.ret ELSE Dangling]

-----------------------------------------------------------------------------
\* Ladderize

\* The number of nodes behind `link`, not counting the node of the link.
RECURSIVE size_behind(_, _, _)
size_behind(T, link, fuel) ==
    IF fuel = 0 THEN 0
    ELSE
    LET ring == RingWalk(T, link, link, << >>)
        sum[k \in 1..Len(ring)] ==
            IF k = 1 THEN 0
            ELSE sum[k - 1] + 1 + size_behind(T, T.link[ring[k]].outer, fuel - 1)
    IN  IF Len(ring) = 0 THEN 0 ELSE sum[Len(ring)]

\* subtree_sizes( tree ): for every node index, the number of nodes of the
\* subtree of that node, seen from the root node, without the node itself.
subtree_sizes(T) ==
    LET rl    == root_link(T)
        ring  == RingWalk(T, rl, rl, << >>)
        walk[k \in 0..Len(ring)] ==
            IF k = 0 THEN << >>
            ELSE walk[k - 1]
                 \o preorder_subtree(T, T.link[ring[k]].outer, node_count(T) + 1)
        below == walk[Len(ring)]
        entry(i) == IF \E k \in 1..Len(below) : T.node[T.link[below[k]].node].index = i
                    THEN below[CHOOSE k \in 1..Len(below) :
                                   T.node[T.link[below[k]].node].index = i]
                    ELSE Dangling
    IN  [i \in 0..(node_count(T) - 1) |->
            IF T.node[T.link[rl].node].index = i
            THEN size_behind(T, rl, node_count(T) + 1)
                 + 1 + size_behind(T, T.link[rl].outer, node_count(T) + 1)
            ELSE IF entry(i) # Dangling
            THEN size_behind(T, entry(i), node_count(T) + 1)
            ELSE 0]

\* is_leaf( node )
is_leaf(T, n) == T.link[T.node[n].link].next = T.node[n].link

\* utils::stable_sort_indices: the positions of `values`, sorted by value,
\* positions of equal values in their original order.
stable_sort_indices(values, small_first) ==
    LET before(i, j) == IF small_first THEN values[i] < values[j]
                                       ELSE values[i] > values[j]
        ahead(i) == Cardinality({ j \in 1..Len(values) :
                        before(j, i) \/ (~ before(i, j) /\ j < i) })
    IN  [k \in 1..Len(values) |-> CHOOSE i \in 1..Len(values) : ahead(i) = k - 1]

\* The order given by a sort that puts equal sizes in reverse order.
child_order_of_TiesReversed(child_sizes, small_first) ==
    LET before(i, j) == IF small_first THEN child_sizes[i] < child_sizes[j]
                                       ELSE child_sizes[i] > child_sizes[j]
        ahead(i) == Cardinality({ j \in 1..Len(child_sizes) :
                        before(j, i) \/ (~ before(i, j) /\ j > i) })
    IN  [k \in 1..Len(child_sizes) |-> CHOOSE i \in 1..Len(child_sizes) : ahead(i) = k - 1]

\* The order of the children: stable_sort_indices with std::less for
\* kSmallFirst, with std::greater otherwise.
child_order_of(child_sizes, small_first) == stable_sort_indices(child_sizes, small_first)

\* The chain without the step that leads back to the primary link.
next_chain_NotClosed(primary_link, child_links, child_order) ==
    << primary_link >>
    \o [k \in 1..Len(child_order) |-> child_links[child_order[k]]]

\* The links in the order in which ladderize chains them with reset_next:
\* the primary link, the children in sorted order, the primary link again.
next_chain(primary_link, child_links, child_order) ==
    << primary_link >>
    \o [k \in 1..Len(child_order) |-> child_links[child_order[k]]]
    \o << primary_link >>

\* The body of the loop of ladderize for one node.
ladderize_node(T, n, sub_sizes, small_first) ==
    IF is_leaf(T, n) THEN T
    ELSE
    LET ring        == node_links(T, n)
        child_links == [k \in 1..(Len(ring) - 1) |-> ring[k + 1]]
        child_sizes == [k \in 1..Len(child_links) |->
                           sub_sizes[T.node[T.link[T.link[child_links[k]].outer].node].index]]
        child_order == child_order_of(child_sizes, small_first)
        chain == next_chain(T.node[n].link, child_links, child_order)
    IN  [T EXCEPT !.link =
            [l \in DOMAIN T.link |->
                IF \E k \in 1..(Len(chain) - 1) : chain[k] = l
                THEN [T.link[l] EXCEPT !.next =
                         chain[(CHOOSE k \in 1..(Len(chain) - 1) : chain[k] = l) + 1]]
                ELSE T.link[l]]]

RECURSIVE ladderize_from(_, _, _, _)
ladderize_from(T, i, sub_sizes, small_first) ==
    IF i >= node_count(T) THEN T
    ELSE ladderize_from(ladderize_node(T, node_at(T, i), sub_sizes, small_first),
                        i + 1, sub_sizes, small_first)

ladderize(T, small_first) ==
    IF ~ RootInRange(T) THEN Throw(T, "out_of_range")
    ELSE IF \E n \in Range(T.nodes) : ~ HasLink(T, n) THEN Undefined(T)
    ELSE Ok(ladderize_from(T, 0, subtree_sizes(T), small_first), Dangling, << >>)

-----------------------------------------------------------------------------
\* The tree "(A,B)R;": the root node R with the leaves A and B, the root
\* link (index 0) being the link of R towards A.
InitTree ==
    [ links |-> << 1, 2, 3, 4 >>,
      nodes |-> << 1, 2, 3 >>,
      edges |-> << 1, 2 >>,
      link  |-> << [index |-> 0, node |-> 1, edge |-> 1, outer |-> 2, next |-> 3],
                   [index |-> 1, node |-> 2, edge |-> 1, outer |-> 1, next |-> 2],
                   [index |-> 2, node |-> 1, edge |-> 2, outer |-> 4, next |-> 1],
                   [index |-> 3, node |-> 3, edge |-> 2, outer |-> 3, next |-> 4] >>,
      node  |-> << [index |-> 0, link |-> 1],
                   [index |-> 1, link |-> 2],
                   [index |-> 2, link |-> 4] >>,
      edge  |-> << [index |-> 0, link_p |-> 1, link_s |-> 2],
                   [index |-> 1, link_p |-> 3, link_s |-> 4] >>,
      root_link_index |-> 0 ]

\* The record of a call while no call has been made or the caller has
\* taken note of the last one.
NoCall ==
    [op |-> "none", arg |-> 0, pre |-> << >>,
     err |-> "none", ret |-> 0, cb |-> << >>, with_cb |-> FALSE, at_cb |-> << >>,
     moved |-> [links |-> << >>, nodes |-> << >>, edges |-> << >>]]

Init ==
    /\ tree = InitTree
    /\ last = NoCall
    /\ deletions = 0

NodeArgs == Range(tree.nodes) \cup ForeignIds
EdgeArgs == Range(tree.edges) \cup ForeignIds
LinkArgs == Range(tree.links) \cup ForeignIds

\* Object identities are addresses, which the program never inspects: after
\* every operation each object is renamed to its position in its vector (the
\* first element is 1). PositionIn gives the new name of an object, or
\* Dangling if it has been destroyed.
PositionIn(vec, x) ==
    IF \E k \in 1..Len(vec) : vec[k] = x
    THEN CHOOSE k \in 1..Len(vec) : vec[k] = x
    ELSE Dangling

Renamed(T) ==
    LET L(x) == PositionIn(T.links, x)
        N(x) == PositionIn(T.nodes, x)
        E(x) == PositionIn(T.edges, x)
    IN  [ links |-> [k \in 1..Len(T.links) |-> k],
          nodes |-> [k \in 1..Len(T.nodes) |-> k],
          edges |-> [k \in 1..Len(T.edges) |-> k],
          link  |-> [k \in 1..Len(T.links) |->
                        [index |-> T.link[T.links[k]].index,
                         next  |-> L(T.link[T.links[k]].next),
                         outer |-> L(T.link[T.links[k]].outer),
                         node  |-> N(T.link[T.links[k]].node),
                         edge  |-> E(T.link[T.links[k]].edge)]],
          node  |-> [k \in 1..Len(T.nodes) |->
                        [index |-> T.node[T.nodes[k]].index,
                         link  |-> L(T.node[T.nodes[k]].link)]],
          edge  |-> [k \in 1..Len(T.edges) |->
                        [index  |-> T.edge[T.edges[k]].index,
                         link_p |-> L(T.edge[T.edges[k]].link_p),
                         link_s |-> L(T.edge[T.edges[k]].link_s)]],
          root_link_index |-> T.root_link_index ]

\* One call of a public function: the tree it leaves, and a record of the
\* call. `pre` is the tree before the call; `arg` and `cb` of
\* delete_linear_node name objects of that tree; `ret` and the new names in
\* `moved` name objects of the tree after the call.
Done(op, arg, res) ==
    /\ last = NoCall
    /\ res.err # "undefined"
    /\ tree' = Renamed(res.t)
    /\ last' = [op  |-> op,
                arg |-> arg,
                pre |-> tree,
                err |-> res.err,
                ret |-> PositionIn(res.t.nodes, res.ret),
                cb  |-> res.cb,
                with_cb |-> res.with_cb,
                at_cb |-> [k \in 1..Len(res.at_cb) |-> Renamed(res.at_cb[k])],
                moved |-> [links |-> [x \in DOMAIN tree.link |-> PositionIn(res.t.links, x)],
                           nodes |-> [x \in DOMAIN tree.node |-> PositionIn(res.t.nodes, x)],
                           edges |-> [x \in DOMAIN tree.edge |-> PositionIn(res.t.edges, x)]]]
    /\ deletions' = IF node_count(res.t) < node_count(tree)
                    THEN deletions + 1 ELSE deletions

\* A second call that the caller makes right after a call that returned: the
\* record keeps the tree before the first call and tells where the elements
\* of that tree are now.
DoneAfter(first_op, op, arg, res) ==
    /\ last.op = first_op
    /\ last.err = "none"
    /\ res.err # "undefined"
    /\ tree' = Renamed(res.t)
    /\ last' = [op  |-> op,
                arg |-> arg,
                pre |-> last.pre,
                err |-> res.err,
                ret |-> PositionIn(res.t.nodes, res.ret),
                cb  |-> res.cb,
                with_cb |-> res.with_cb,
                at_cb |-> [k \in 1..Len(res.at_cb) |-> Renamed(res.at_cb[k])],
                moved |-> [links |-> [x \in DOMAIN last.pre.link |-> PositionIn(res.t.links, x)],
                           nodes |-> [x \in DOMAIN last.pre.node |-> PositionIn(res.t.nodes, x)],
                           edges |-> [x \in DOMAIN last.pre.edge |-> PositionIn(res.t.edges, x)]]]
    /\ deletions' = IF node_count(res.t) < node_count(tree)
                    THEN deletions + 1 ELSE deletions

\* The values a read of a destroyed link's index may yield: every index of
\* the tree before the call.  r0 and r1 are the results of the call for two
\* different values; when they agree the call does not make such a read.
StaleChoices(r0, r1) == IF r0 = r1 THEN { 0 } ELSE 0..(link_count(tree) - 1)

AddNewNodeAtNode ==
    \E n \in NodeArgs :
        /\ node_count(tree) < MaxNodes
        /\ Done("add_new_node_node", n, add_new_node_at_node(tree, n))

AddNewNodeAtEdge ==
    \E e \in EdgeArgs, with_cb \in BOOLEAN :
        /\ node_count(tree) < MaxNodes
        /\ Done("add_new_node_edge", e, add_new_node_at_edge(tree, e, with_cb))

AddNewLeafNode ==
    \E e \in EdgeArgs, with_cb \in BOOLEAN :
        /\ node_count(tree) + 1 < MaxNodes
        /\ Done("add_new_leaf_node", e, add_new_leaf_node(tree, e, with_cb))

AddRootNode ==
    \E e \in EdgeArgs :
        /\ node_count(tree) < MaxNodes
        /\ Done("add_root_node", e, add_root_node(tree, e))

RerootLink ==
    \E l \in LinkArgs : Done("reroot_link", l, reroot_link(tree, l))

RerootNode ==
    \E n \in NodeArgs : Done("reroot_node", n, reroot_node(tree, n))

RerootAtNode ==
    \E i \in 0..MaxNodes : Done("reroot_at_node", i, reroot_at_node(tree, i))

DeleteNode ==
    \E n \in NodeArgs :
        \E stale \in StaleChoices(delete_node(tree, n, 0), delete_node(tree, n, 1)) :
            /\ deletions < MaxDeletions
            /\ Done("delete_node", n, delete_node(tree, n, stale))

DeleteLeafNode ==
    \E n \in NodeArgs :
        \E stale \in StaleChoices(delete_leaf_node(tree, n, 0), delete_leaf_node(tree, n, 1)) :
            /\ deletions < MaxDeletions
            /\ Done("delete_leaf_node", n, delete_leaf_node(tree, n, stale))

DeleteLinearNode ==
    \E n \in NodeArgs, with_cb \in BOOLEAN :
        /\ deletions < MaxDeletions
        /\ Done("delete_linear_node", n, delete_linear_node(tree, n, with_cb))

DeleteSubtree ==
    \E l \in LinkArgs :
        /\ deletions < MaxDeletions
        /\ Done("delete_subtree", l, delete_subtree(tree, l))

Ladderize ==
    \E small_first \in BOOLEAN :
        Done("ladderize", IF small_first THEN 1 ELSE 0, ladderize(tree, small_first))

\* The caller goes on after a call, whether it returned or threw.
\* reroot( tree, at_link ) followed by reroot( tree, L0 ), L0 being the root
\* link before the first call.  The record keeps at_link as argument.
RerootBack ==
    /\ last.op = "reroot_link"
    /\ RootInRange(last.pre)
    /\ DoneAfter("reroot_link", "reroot_back", last.arg,
                 reroot_link(tree, root_link(last.pre)))

\* add_new_node( tree, node ) followed by delete_leaf_node on the node it
\* returned.
DeleteAdded ==
    /\ last.op = "add_new_node_node"
    /\ last.err = "none"
    /\ \E stale \in StaleChoices(delete_leaf_node(tree, last.ret, 0),
                                 delete_leaf_node(tree, last.ret, 1)) :
           /\ deletions < MaxDeletions
           /\ DoneAfter("add_new_node_node", "add_then_delete", last.arg,
                        delete_leaf_node(tree, last.ret, stale))

\* add_new_node( tree, edge ) without a callback followed by
\* delete_linear_node, without a callback, on the node it returned.
DeleteSplit ==
    /\ last.op = "add_new_node_edge"
    /\ last.err = "none"
    /\ ~ last.with_cb
    /\ deletions < MaxDeletions
    /\ DoneAfter("add_new_node_edge", "split_then_merge", last.arg,
                 delete_linear_node(tree, last.ret, FALSE))

\* ladderize followed by ladderize with the same order.
LadderizeAgain ==
    /\ last.op = "ladderize"
    /\ DoneAfter("ladderize", "ladderize_twice", last.arg,
                 ladderize(tree, last.arg = 1))

Continue ==
    /\ last # NoCall
    /\ last' = NoCall
    /\ UNCHANGED << tree, deletions >>

Next ==
    \/ Continue
    \/ AddNewNodeAtNode
    \/ DeleteNode
    \/ DeleteLeafNode
    \/ DeleteLinearNode
    \/ DeleteSubtree
    \/ AddNewNodeAtEdge
    \/ AddNewLeafNode
    \/ AddRootNode
    \/ RerootLink
    \/ RerootNode
    \/ RerootAtNode
    \/ Ladderize
    \/ RerootBack
    \/ DeleteAdded
    \/ DeleteSplit

Spec == Init /\ [][Next]_vars

-----------------------------------------------------------------------------
\* Properties

Links == DOMAIN tree.link
Nodes == DOMAIN tree.node
Edges == DOMAIN tree.edge

\* The links owned by a node.
OwnedLinks(n) == { l \in Links : tree.link[l].node = n }

\* The last call was `op` and returned normally.
Returned(op) == last.op = op /\ last.err = "none"

DeleteOps == { "delete_node", "delete_leaf_node", "delete_linear_node", "delete_subtree" }

\* C1: in every reachable state the element at position i of each of the
\* three collections has stored index i.
C1_IndexInvariant ==
    /\ \A i \in 1..Len(tree.links) : tree.link[tree.links[i]].index = i - 1
    /\ \A i \in 1..Len(tree.nodes) : tree.node[tree.nodes[i]].index = i - 1
    /\ \A i \in 1..Len(tree.edges) : tree.edge[tree.edges[i]].index = i - 1

\* A deletion has moved a surviving link, node and edge to a new position.
C1_Witness ==
    /\ last.op \in DeleteOps /\ last.err = "none"
    /\ \E x \in DOMAIN last.moved.links : last.moved.links[x] \notin {Dangling, x}
    /\ \E x \in DOMAIN last.moved.nodes : last.moved.nodes[x] \notin {Dangling, x}
    /\ \E x \in DOMAIN last.moved.edges : last.moved.edges[x] \notin {Dangling, x}

\* C2: in every reachable state every node has a primary link that is in the
\* tree and is owned by that node.
C2_PrimaryLinkInvariant ==
    \A n \in Nodes :
        /\ tree.node[n].link \in Links
        /\ tree.link[tree.node[n].link].node = n

\* The nodes adjacent to a node.
Neighbours(n) == { tree.link[tree.link[l].outer].node : l \in OwnedLinks(n) }

\* The nodes at most k hops from the root node.
RECURSIVE WithinHops(_)
WithinHops(k) ==
    IF k = 0 THEN { root_node(tree) }
    ELSE LET near == WithinHops(k - 1)
         IN  near \cup UNION { Neighbours(n) : n \in near }

\* The number of hops from the root node to a node.
Hops(n) ==
    IF \E k \in 0..node_count(tree) : n \in WithinHops(k)
    THEN CHOOSE k \in 0..node_count(tree) :
            n \in WithinHops(k) /\ (k = 0 \/ n \notin WithinHops(k - 1))
    ELSE node_count(tree) + 1

\* C3: in every reachable state the primary link of every edge is owned by a
\* node strictly closer to the root node than the owner of its secondary
\* link, and the primary link of every node but the root node is the link of
\* its ring on the path to the root node.
C3_EdgeOrientation ==
    /\ RootInRange(tree)
    /\ \A e \in Edges :
        /\ tree.edge[e].link_p \in Links
        /\ tree.edge[e].link_s \in Links
        /\ Hops(tree.link[tree.edge[e].link_p].node)
              < Hops(tree.link[tree.edge[e].link_s].node)
    /\ \A n \in Nodes \ { root_node(tree) } :
        /\ tree.node[n].link \in OwnedLinks(n)
        /\ Hops(tree.link[tree.link[tree.node[n].link].outer].node) < Hops(n)

\* C4: in every reachable state outer(outer(L)) = L for every link L, outer(L)
\* is a link of the tree, and L and outer(L) are owned by different nodes.
C4_OuterMutuality ==
    \A l \in Links :
        /\ tree.link[l].outer \in Links
        /\ tree.link[tree.link[l].outer].outer = l
        /\ tree.link[tree.link[l].outer].node # tree.link[l].node

\* A linear node has been deleted, or an edge has been split, in a tree that
\* has had a deletion before or after.
C4_Witness ==
    \/ Returned("delete_linear_node") /\ link_count(tree) >= 4
    \/ Returned("add_new_node_edge") /\ deletions > 0

\* The link reached from l by k steps of "next".
RECURSIVE NextSteps(_, _)
NextSteps(l, k) ==
    IF k = 0 \/ l \notin Links THEN l ELSE NextSteps(tree.link[l].next, k - 1)

\* C5: in every reachable state, following "next" from any link L returns to
\* L after exactly as many steps as the owner of L has links, and visits
\* each link of that node, and no other link, on the way.
C5_RingClosure ==
    \A l \in Links :
        LET ring == OwnedLinks(tree.link[l].node)
            d    == Cardinality(ring)
        IN  /\ NextSteps(l, d) = l
            /\ { NextSteps(l, k) : k \in 0..(d - 1) } = ring

\* A leaf has been deleted and a ring of at least two links remains.
C5_Witness ==
    /\ Returned("delete_leaf_node")
    /\ \E n \in Nodes : Cardinality(OwnedLinks(n)) >= 2

\* The nodes of the subtree behind link l of tree T: the node of l and
\* every node that can be reached from it without passing through l.
RECURSIVE GrowBehind(_, _, _, _)
GrowBehind(T, l, S, k) ==
    IF k = 0 THEN S
    ELSE GrowBehind(T, l,
                    S \cup { T.link[T.link[m].outer].node :
                                m \in { m \in DOMAIN T.link : T.link[m].node \in S /\ m # l } },
                    k - 1)

SubtreeNodes(T, l) == GrowBehind(T, l, { T.link[l].node }, Len(T.nodes))

\* The elements of the tree before the last call that the call destroyed.
GoneNodes == { x \in DOMAIN last.moved.nodes : last.moved.nodes[x] = Dangling }
GoneEdges == { x \in DOMAIN last.moved.edges : last.moved.edges[x] = Dangling }
GoneLinks == { x \in DOMAIN last.moved.links : last.moved.links[x] = Dangling }

NoDuplicates(s) == Cardinality(Range(s)) = Len(s)

\* C6: delete_subtree on a subtree of k nodes removes exactly those k nodes,
\* the k edges at them and both links of each of these edges (2k links), and
\* the three lists of indices it collects hold no index twice.
C6_DeleteSubtreeRemoves ==
    Returned("delete_subtree") =>
        LET P == last.pre
            S == SubtreeNodes(P, last.arg)
            k == Cardinality(S)
            inner == { l \in DOMAIN P.link : P.link[l].node \in S }
            walk  == preorder_subtree(P, last.arg, node_count(P) + 1)
        IN  /\ GoneNodes = S
            /\ GoneEdges = { P.link[l].edge : l \in inner }
            /\ GoneLinks = inner \cup { P.link[l].outer : l \in inner }
            /\ Cardinality(GoneEdges) = k
            /\ Cardinality(GoneLinks) = 2 * k
            /\ node_count(tree) = node_count(P) - k
            /\ edge_count(tree) = edge_count(P) - k
            /\ link_count(tree) = link_count(P) - 2 * k
            /\ NoDuplicates(del_nodes_of(P, walk))
            /\ NoDuplicates(del_edges_of(P, walk))
            /\ NoDuplicates(del_links_of(P, walk))

\* A subtree of two nodes or more has been deleted and two nodes or more
\* remain.
C6_Witness ==
    /\ Returned("delete_subtree")
    /\ Cardinality(GoneNodes) >= 2
    /\ node_count(tree) >= 2

\* C7: a delete_subtree call that does not remove the root node leaves the
\* root link and the root node what they were.
C7_DeleteSubtreeKeepsRoot ==
    ( /\ Returned("delete_subtree")
      /\ RootInRange(last.pre)
      /\ root_node(last.pre) \notin SubtreeNodes(last.pre, last.arg) )
    => /\ RootInRange(tree)
       /\ root_link(tree) = last.moved.links[root_link(last.pre)]
       /\ root_node(tree) = last.moved.nodes[root_node(last.pre)]

\* C8: delete_leaf_node removes the node, its edge and the two links of that
\* edge, nothing else, and leaves every element with its position as index.
C8_DeleteLeafNode ==
    Returned("delete_leaf_node") =>
        LET P == last.pre
            l == P.node[last.arg].link
        IN  /\ node_count(tree) = node_count(P) - 1
            /\ edge_count(tree) = edge_count(P) - 1
            /\ link_count(tree) = link_count(P) - 2
            /\ GoneNodes = { last.arg }
            /\ GoneEdges = { P.link[l].edge }
            /\ GoneLinks = { l, P.link[l].outer }
            /\ \A i \in 1..Len(tree.links) : tree.link[tree.links[i]].index = i - 1
            /\ \A i \in 1..Len(tree.nodes) : tree.node[tree.nodes[i]].index = i - 1
            /\ \A i \in 1..Len(tree.edges) : tree.edge[tree.edges[i]].index = i - 1

\* A leaf that was not the last element of the node vector, on an edge that
\* was not the last of the edge vector, has been deleted.
C8_Witness ==
    /\ Returned("delete_leaf_node")
    /\ last.pre.node[last.arg].index < node_count(tree)
    /\ \E e \in GoneEdges : last.pre.edge[e].index < edge_count(tree)

\* The calls that take a node, an edge or a link of the tree.
ElementOps ==
    { "add_new_node_node", "add_new_node_edge", "add_new_leaf_node", "add_root_node",
      "delete_node", "delete_leaf_node", "delete_linear_node", "delete_subtree",
      "reroot_link", "reroot_node" }

\* C9: a call with an element that does not belong to the tree, or
\* reroot_at_node with an index that is no node index, reports an error and
\* leaves the tree as it was.
C9_OwnershipPrecondition ==
    ( \/ last.op \in ElementOps /\ last.arg \in ForeignIds
      \/ last.op = "reroot_at_node" /\ last.arg >= node_count(last.pre) )
    => /\ last.err = "runtime_error"
       /\ tree = last.pre

\* Calls with a foreign element whose stored index is an index of the tree.
C9_Witness ==
    /\ last.op = "delete_subtree"
    /\ last.arg \in ForeignIds
    /\ ForeignIndex(last.arg) < link_count(last.pre)
    /\ last.err = "runtime_error"

\* The number of links a node of tree T owns.
LinksOwned(T, n) == Cardinality({ l \in DOMAIN T.link : T.link[l].node = n })

\* C10: delete_leaf_node on a node that has not exactly one link, and
\* delete_linear_node on a node that has not exactly two, report an error,
\* leave the tree as it was and do not call the callback.
C10_DegreePrecondition ==
    ( \/ /\ last.op = "delete_leaf_node"
         /\ last.arg \in DOMAIN last.pre.node
         /\ LinksOwned(last.pre, last.arg) # 1
      \/ /\ last.op = "delete_linear_node"
         /\ last.arg \in DOMAIN last.pre.node
         /\ LinksOwned(last.pre, last.arg) # 2 )
    => /\ last.err = "runtime_error"
       /\ tree = last.pre
       /\ last.cb = << >>

\* delete_linear_node has been refused on a node with three links.
C10_Witness ==
    /\ last.op = "delete_linear_node"
    /\ last.arg \in DOMAIN last.pre.node
    /\ LinksOwned(last.pre, last.arg) = 3
    /\ last.err = "runtime_error"

\* What a call can leave: the tree and the error.
Outcome(res) == << Renamed(res.t), res.err >>

\* C11: delete_node on a node of the tree leaves what delete_leaf_node
\* leaves when the node has one link, what delete_linear_node without
\* callback leaves when it has two, and what delete_subtree on the subtree
\* behind the primary link of the node leaves when it has three or more: the
\* node goes with everything behind its primary link.
C11_DeleteNodeDispatch ==
    ( last.op = "delete_node" /\ last.arg \in DOMAIN last.pre.node ) =>
        LET P == last.pre
            n == last.arg
            d == LinksOwned(P, n)
        IN  /\ d = 1 => << tree, last.err >> \in
                            { Outcome(delete_leaf_node(P, n, stale)) :
                                 stale \in 0..(link_count(P) - 1) }
            /\ d = 2 => /\ << tree, last.err >> = Outcome(delete_linear_node(P, n, FALSE))
                        /\ last.cb = << >>
            /\ d >= 3 => /\ << tree, last.err >> = Outcome(delete_subtree(P, P.node[n].link))
                         /\ last.err = "none" =>
                                GoneNodes = SubtreeNodes(P, P.node[n].link)

\* delete_node has removed a node with three links together with a node
\* behind it.
C11_Witness ==
    /\ Returned("delete_node")
    /\ last.arg \in DOMAIN last.pre.node
    /\ LinksOwned(last.pre, last.arg) >= 3
    /\ Cardinality(GoneNodes) >= 2

\* A tree that satisfies the invariants of the Tree class: indices are
\* positions, "outer" pairs the two links of an edge, "next" closes the ring
\* of every node, the root link is the primary link of the root node, the
\* primary link of every other node and the primary link of every edge face
\* the root node, and the tree is connected.
WellFormed(T) ==
    /\ RootInRange(T)
    /\ link_count(T) = 2 * edge_count(T)
    /\ node_count(T) = edge_count(T) + 1
    /\ \A i \in 1..Len(T.links) : T.link[T.links[i]].index = i - 1
    /\ \A i \in 1..Len(T.nodes) : T.node[T.nodes[i]].index = i - 1
    /\ \A i \in 1..Len(T.edges) : T.edge[T.edges[i]].index = i - 1
    /\ \A l \in Range(T.links) :
          /\ T.link[l].next \in Range(T.links)
          /\ T.link[l].outer \in Range(T.links)
          /\ T.link[l].node \in Range(T.nodes)
          /\ T.link[l].edge \in Range(T.edges)
          /\ T.link[T.link[l].outer].outer = l
          /\ T.link[T.link[l].outer].node # T.link[l].node
          /\ T.link[T.link[l].outer].edge = T.link[l].edge
          /\ Range(RingWalk(T, l, l, << >>)) =
                { m \in Range(T.links) : T.link[m].node = T.link[l].node }
    /\ \A n \in Range(T.nodes) :
          /\ T.node[n].link \in Range(T.links)
          /\ T.link[T.node[n].link].node = n
    /\ \A e \in Range(T.edges) :
          /\ T.edge[e].link_p \in Range(T.links)
          /\ T.edge[e].link_s \in Range(T.links)
          /\ T.link[T.edge[e].link_p].edge = e
          /\ T.link[T.edge[e].link_s].edge = e
          /\ T.link[T.edge[e].link_p].outer = T.edge[e].link_s
          /\ T.node[T.link[T.edge[e].link_s].node].link = T.edge[e].link_s
          /\ root_node(T) \notin SubtreeNodes(T, T.edge[e].link_s)
    /\ T.node[root_node(T)].link = root_link(T)
    /\ \A n \in Range(T.nodes) \ { root_node(T) } :
          root_node(T) \notin SubtreeNodes(T, T.node[n].link)
    /\ SubtreeNodes(T, root_link(T))
          \cup SubtreeNodes(T, T.link[root_link(T)].outer) = Range(T.nodes)

\* C12: reroot on a link L of a well-formed tree, followed by reroot on the
\* link that was the root link, gives every edge the primary and secondary
\* link, every node the primary link and the tree the root link index it
\* had before the first call.
C12_RerootRoundTrip ==
    ( last.op = "reroot_back" /\ WellFormed(last.pre) ) =>
        /\ last.err = "none"
        /\ tree.edge = last.pre.edge
        /\ tree.node = last.pre.node
        /\ tree.root_link_index = last.pre.root_link_index

\* A tree of four nodes has been rerooted on a link of a node that was not
\* the root node, and rerooted back.
C12_Witness ==
    /\ last.op = "reroot_back"
    /\ last.err = "none"
    /\ WellFormed(last.pre)
    /\ node_count(tree) = 4
    /\ last.pre.link[last.arg].node # root_node(last.pre)

\* The link on which the last call, a reroot call, rerooted the tree.
RerootTarget ==
    CASE last.op = "reroot_link"    -> last.arg
      [] last.op = "reroot_node"    -> last.pre.node[last.arg].link
      [] last.op = "reroot_at_node" -> last.pre.node[node_at(last.pre, last.arg)].link

RerootOps == { "reroot_link", "reroot_node", "reroot_at_node" }

\* C13: after a reroot on link L of a well-formed tree that returned, the
\* root link is L, the root node is the node of L and the primary link of
\* that node is L; reroot on a node leaves what reroot on the primary link
\* the node had before leaves, and reroot_at_node on an index what reroot on
\* the node at that index leaves.
C13_RerootDesignation ==
    ( last.op \in RerootOps /\ WellFormed(last.pre) ) =>
    /\ last.err = "none" =>
          /\ RootInRange(tree)
          /\ root_link(tree) = RerootTarget
          /\ root_node(tree) = last.pre.link[RerootTarget].node
          /\ tree.node[root_node(tree)].link = RerootTarget
    /\ ( last.op = "reroot_node" /\ last.arg \in DOMAIN last.pre.node ) =>
          << tree, last.err >> =
              Outcome(reroot_link(last.pre, last.pre.node[last.arg].link))
    /\ ( last.op = "reroot_at_node" /\ last.arg < node_count(last.pre) ) =>
          << tree, last.err >> =
              Outcome(reroot_node(last.pre, node_at(last.pre, last.arg)))

\* The tree has been rerooted on a link that was not the primary link of its
\* node.
C13_Witness ==
    /\ Returned("reroot_link")
    /\ WellFormed(last.pre)
    /\ last.pre.node[last.pre.link[last.arg].node].link # last.arg
    /\ last.pre.link[last.arg].node # root_node(last.pre)

\* The edges on the path from the root node of the well-formed tree T to
\* node n: the edges that have n on their secondary side.
PathEdges(T, n) ==
    { e \in Range(T.edges) : n \in SubtreeNodes(T, T.edge[e].link_s) }

\* The nodes on that path.
PathNodes(T, n) ==
    { root_node(T), n } \cup { T.link[T.edge[e].link_s].node : e \in PathEdges(T, n) }

\* What reroot on a link of a well-formed tree does to the edges, and how
\* long it walks: the edges on the path between the root node and the node of
\* the link, and no other, have their primary and secondary link swapped, and
\* the loop makes one iteration for each of them.
RerootEdgesFrame ==
    LET P    == last.pre
        n    == P.link[last.arg].node
        path == PathEdges(P, n)
    IN  /\ \A e \in path :
              /\ tree.edge[e].link_p = P.edge[e].link_s
              /\ tree.edge[e].link_s = P.edge[e].link_p
        /\ \A e \in Range(P.edges) \ path : tree.edge[e] = P.edge[e]
        /\ reroot_link_iterations(P, last.arg) = Cardinality(path)
        /\ ( n = root_node(P) =>
                ( reroot_link_iterations(P, last.arg) = 0 /\ tree.edge = P.edge ) )
        /\ tree.link = P.link

\* The nodes whose primary link is another link than before the last call.
PrimaryChanged == { m \in Range(last.pre.nodes) : tree.node[m].link # last.pre.node[m].link }

\* C14 as stated: reroot on a link of a well-formed tree swaps the primary and
\* secondary link of exactly the edges on the path between the old root node
\* and the node of the link, in as many iterations as the path has edges,
\* and the nodes whose primary link it changes are exactly the nodes on that
\* path.
C14_RerootFrame ==
    ( Returned("reroot_link") /\ WellFormed(last.pre) ) =>
        /\ RerootEdgesFrame
        /\ PrimaryChanged = PathNodes(last.pre, last.pre.link[last.arg].node)

\* C14, amended: the same for the edges and the iterations; the nodes whose
\* primary link changes are among the nodes on the path, and after the call
\* the primary link of every node on the path but the new root node is its
\* link on the path towards the new root node (which can be the link it was
\* before).
C14_RerootFrameAmended ==
    ( Returned("reroot_link") /\ WellFormed(last.pre) ) =>
        LET P == last.pre
            n == P.link[last.arg].node
        IN  /\ RerootEdgesFrame
            /\ PrimaryChanged \subseteq PathNodes(P, n)
            /\ tree.node[n].link = last.arg
            /\ \A e \in PathEdges(P, n) :
                  tree.node[P.link[P.edge[e].link_p].node].link = P.edge[e].link_p

\* The tree has been rerooted on a link of a node two edges away from the
\* root node, in a tree that has an edge off that path.
C14_Witness ==
    /\ Returned("reroot_link")
    /\ WellFormed(last.pre)
    /\ Cardinality(PathEdges(last.pre, last.pre.link[last.arg].node)) = 2
    /\ edge_count(tree) = 3

\* C15: add_new_node on a node of a well-formed tree, followed by
\* delete_leaf_node on the node it returned, leaves the tree as it was before
\* the two calls: the three vectors, every index, every next, outer, node
\* and edge of a link, every primary link of a node, both links of every
\* edge, and the root link index.
C15_InsertDeleteRoundTrip ==
    ( last.op = "add_then_delete" /\ WellFormed(last.pre) ) =>
        /\ last.err = "none"
        /\ tree = last.pre

\* A leaf has been added to a node with two links or more and deleted again.
C15_Witness ==
    /\ last.op = "add_then_delete"
    /\ last.err = "none"
    /\ WellFormed(last.pre)
    /\ LinksOwned(last.pre, last.arg) >= 2

\* The ring links of node n of T that do not face the root node, in `next`
\* order from the primary link of n: all of them at the root node, all but
\* the primary link elsewhere.
NonRootFacing(T, n) ==
    LET ring == node_links(T, n)
    IN  IF n = root_node(T) THEN ring
        ELSE [k \in 1..(Len(ring) - 1) |-> ring[k + 1]]

\* The number of nodes of the subtree of the neighbour reached through
\* each of these links.
NeighbourSizes(T, n) ==
    LET links == NonRootFacing(T, n)
    IN  [k \in 1..Len(links) |-> Cardinality(SubtreeNodes(T, T.link[links[k]].outer))]

Monotone(sizes, small_first) ==
    \A k \in 1..(Len(sizes) - 1) :
        IF small_first THEN sizes[k] <= sizes[k + 1] ELSE sizes[k] >= sizes[k + 1]

\* C16: after ladderize on a well-formed tree, at every node that is not a
\* leaf, the root node included, the subtree sizes of the neighbours reached
\* through the links that do not face the root are non-decreasing in `next`
\* order for the ascending order (kSmallFirst), non-increasing for the
\* descending order.
C16_LadderizeOrder ==
    ( last.op = "ladderize" /\ WellFormed(last.pre) ) =>
        /\ last.err = "none"
        /\ \A n \in Range(tree.nodes) :
               ~ is_leaf(tree, n) => Monotone(NeighbourSizes(tree, n), last.arg = 1)

\* The node at the other end of the only link of leaf node n of T.
NeighbourOfLeaf(T, n) == T.link[T.link[T.node[n].link].outer].node

\* C17: when delete_leaf_node is called on a node of degree 1 that is the
\* root node of a well-formed tree, the call returns, the root link index is
\* in range afterwards, and the link it designates is owned by the former
\* neighbour of the deleted node, which is therefore the root node.
C17_RootRelocationLeaf ==
    ( /\ last.op = "delete_leaf_node"
      /\ WellFormed(last.pre)
      /\ last.arg \in Range(last.pre.nodes)
      /\ root_node(last.pre) = last.arg
      /\ degree(last.pre, last.arg) = 1 ) =>
        /\ last.err = "none"
        /\ RootInRange(tree)
        /\ root_link(tree) \in Range(tree.links)
        /\ root_node(tree) = last.moved.nodes[NeighbourOfLeaf(last.pre, last.arg)]

\* C18: when the subtree removed by delete_subtree from a well-formed tree
\* contains the root node, the call returns and the root link index then
\* designates a link that is still in the tree, is owned by the attachment
\* node, and is the link that followed the attachment link in the ring of
\* that node before the call.
C18_RootRelocationSubtree ==
    ( /\ last.op = "delete_subtree"
      /\ WellFormed(last.pre)
      /\ last.arg \in Range(last.pre.links)
      /\ root_node(last.pre) \in SubtreeNodes(last.pre, last.arg) ) =>
        LET attach_link == last.pre.link[last.arg].outer
            following   == last.pre.link[attach_link].next
        IN  /\ last.err = "none"
            /\ last.moved.links[following] # Dangling
            /\ RootInRange(tree)
            /\ root_link(tree) = last.moved.links[following]
            /\ tree.link[root_link(tree)].node
                   = last.moved.nodes[last.pre.link[attach_link].node]

\* C19: when delete_linear_node is called on a node of degree 2 that is the
\* root node of a well-formed tree, the call returns; the root link index
\* then designates the surviving link of the neighbour that was reached
\* through the primary link of the deleted node; the one edge retained
\* between the two former neighbours has a primary and a secondary link that
\* are both still in the tree and are the two neighbour links, now the outer
\* of each other; and its primary link is the one on the side of the new
\* root node.
C19_RootRelocationLinear ==
    ( /\ last.op = "delete_linear_node"
      /\ WellFormed(last.pre)
      /\ last.arg \in Range(last.pre.nodes)
      /\ root_node(last.pre) = last.arg
      /\ degree(last.pre, last.arg) = 2 ) =>
        LET pr_link    == last.pre.node[last.arg].link
            adj_link_p == last.moved.links[last.pre.link[pr_link].outer]
            adj_link_d == last.moved.links[last.pre.link[last.pre.link[pr_link].next].outer]
        IN  /\ last.err = "none"
            /\ adj_link_p \in Range(tree.links)
            /\ adj_link_d \in Range(tree.links)
            /\ RootInRange(tree)
            /\ root_link(tree) = adj_link_p
            /\ tree.link[adj_link_p].outer = adj_link_d
            /\ tree.link[adj_link_d].outer = adj_link_p
            /\ tree.link[adj_link_p].edge = tree.link[adj_link_d].edge
            /\ LET retained == tree.link[adj_link_p].edge
               IN  /\ retained \in Range(tree.edges)
                   /\ tree.edge[retained].link_p = adj_link_p
                   /\ tree.edge[retained].link_s = adj_link_d

-----------------------------------------------------------------------------
\* The scenario on the tree "((B,(D,E)C)A,F,(H,I)G)R;".

\* add_new_node( tree, node ) on each node of `targets` in turn.
RECURSIVE Grown(_, _)
Grown(T, targets) ==
    IF targets = << >> THEN T
    ELSE Grown(Renamed(add_new_node_at_node(T, Head(targets)).t), Tail(targets))

\* The names of the nodes of ScenarioTree, by node.
NodeNames == << "R", "A", "F", "G", "B", "C", "D", "E", "H", "I" >>

\* The tree with root node R, whose ring leads to A, F, G in this order; A
\* to B, C; C to D, E; G to H, I.  It is grown from the tree with the root
\* node and its first two children, each add_new_node putting the new child
\* last in the ring of its parent.
ScenarioTree == Grown(InitTree, << 1, 2, 2, 6, 6, 4, 4 >>)

\* postorder: the nodes behind `link`, every node after the nodes of its
\* subtree, the ring of a node being followed in `next` order from the link
\* through which the walk enters it.
RECURSIVE postorder_subtree(_, _, _)
postorder_subtree(T, link, fuel) ==
    IF fuel = 0 THEN << >>
    ELSE
    LET ring == RingWalk(T, link, link, << >>)
        visit[k \in 1..Len(ring)] ==
            IF k = 1 THEN << >>
            ELSE visit[k - 1] \o postorder_subtree(T, T.link[ring[k]].outer, fuel - 1)
    IN  IF Len(ring) = 0 THEN << >> ELSE Append(visit[Len(ring)], T.link[link].node)

\* postorder( tree ): the walk from the root node, which starts with the
\* subtree behind the root link.
postorder(T) ==
    LET rl == root_link(T)
    IN  postorder_subtree(T, T.link[rl].outer, node_count(T) + 1)
        \o postorder_subtree(T, rl, node_count(T) + 1)

\* The walk that explores the ring of the start node first and the direction
\* of its primary link last.
postorder_from_PrimaryLast(T, start_node) ==
    LET pl  == T.node[start_node].link
        own == postorder_subtree(T, pl, node_count(T) + 1)
    IN  SubSeq(own, 1, Len(own) - 1)
        \o postorder_subtree(T, T.link[pl].outer, node_count(T) + 1)
        \o << start_node >>

\* postorder( node ): the walk started at a node, which begins with the
\* subtree behind the primary link of that node and ends with the node.
postorder_from(T, start_node) ==
    LET pl == T.node[start_node].link
    IN  postorder_subtree(T, T.link[pl].outer, node_count(T) + 1)
        \o postorder_subtree(T, pl, node_count(T) + 1)

\* Every pointer of the tree leads to an element of the tree.
Walkable(T) ==
    /\ \A n \in Range(T.nodes) : T.node[n].link \in Range(T.links)
    /\ \A l \in Range(T.links) :
           /\ T.link[l].next \in Range(T.links)
           /\ T.link[l].outer \in Range(T.links)
           /\ T.link[l].node \in Range(T.nodes)

\* The loop of TestPostorder: the nodes the iteration visits, in order.
TestPostorder(T, start_node) ==
    IF ~ Walkable(T) THEN Undefined(T)
    ELSE Ok(T, start_node, postorder_from(T, start_node))

Init20 ==
    /\ tree = ScenarioTree
    /\ last = NoCall
    /\ deletions = 0

\* A post-order iteration started at a node of the tree; the record keeps
\* the visited nodes in `cb`.
Postorder ==
    \E n \in Range(tree.nodes) :
        Done("postorder", n, TestPostorder(tree, n))

Next20 ==
    \/ Continue
    \/ LadderizeAgain
    \/ DeleteSubtree
    \/ RerootLink
    \/ Ladderize
    \/ Postorder

Spec20 == Init20 /\ [][Next20]_vars

\* The name of a node of the tree after a call on ScenarioTree: the name of
\* the node of ScenarioTree that it was.
NameAfter(n) ==
    NodeNames[CHOOSE p \in DOMAIN last.moved.nodes : last.moved.nodes[p] = n]

\* The link of a surviving node's ring keep their order.
RingsKept ==
    \A p \in DOMAIN last.moved.nodes :
        last.moved.nodes[p] # Dangling =>
            LET before == SelectSeq(node_links(last.pre, p),
                                    LAMBDA l : last.moved.links[l] # Dangling)
            IN  node_links(tree, last.moved.nodes[p])
                    = [k \in 1..Len(before) |-> last.moved.links[before[k]]]

\* C20: on the tree ((B,(D,E)C)A,F,(H,I)G)R, of 10 nodes, 9 edges and 18
\* links with root node R, delete_subtree on the subtree at C removes the
\* nodes C, D, E and no other, 3 edges and 6 links; the post-order walk from
\* R on the 7 nodes that remain visits B A F H I G R, and the ring of every
\* surviving node keeps its order.
C20_Scenario ==
    ( /\ last.op = "delete_subtree"
      /\ last.pre = ScenarioTree
      /\ last.arg = ScenarioTree.node[6].link ) =>
        /\ last.err = "none"
        /\ node_count(last.pre) = 10 /\ edge_count(last.pre) = 9 /\ link_count(last.pre) = 18
        /\ NodeNames[root_node(last.pre)] = "R"
        /\ { NodeNames[p] : p \in GoneNodes } = { "C", "D", "E" }
        /\ Cardinality(GoneNodes) = 3
        /\ Cardinality(GoneEdges) = 3
        /\ Cardinality(GoneLinks) = 6
        /\ node_count(tree) = 7 /\ edge_count(tree) = 6 /\ link_count(tree) = 12
        /\ RootInRange(tree)
        /\ LET walk == postorder(tree)
           IN  [k \in 1..Len(walk) |-> NameAfter(walk[k])]
                   = << "B", "A", "F", "H", "I", "G", "R" >>
        /\ RingsKept

\* delete_subtree has returned from the call on the subtree at C, and the
\* post-order walk of the tree before the call was B D E C A F H I G R.
C20_Witness ==
    /\ last.op = "delete_subtree"
    /\ last.err = "none"
    /\ last.pre = ScenarioTree
    /\ last.arg = ScenarioTree.node[6].link
    /\ WellFormed(last.pre)
    /\ LET walk == postorder(last.pre)
       IN  [k \in 1..Len(walk) |-> NodeNames[walk[k]]]
               = << "B", "D", "E", "C", "A", "F", "H", "I", "G", "R" >>

\* The link of node m that leads towards node s.
LinkTowards(T, m, s) ==
    CHOOSE l \in DOMAIN T.link :
        T.link[l].node = m /\ s \in SubtreeNodes(T, T.link[l].outer)

\* The nodes that lie behind node m as seen from node s.
BehindFrom(T, s, m) == SubtreeNodes(T, LinkTowards(T, m, s)) \ { m }

\* The positions of a set of nodes in a walk.
PositionsIn(walk, S) == { i \in 1..Len(walk) : walk[i] \in S }

\* The directions a walk started at s explores from node m, in ring order:
\* from s, all links beginning with the primary link; from another node,
\* the links after the one that leads towards s.
Directions(T, s, m) ==
    IF m = s THEN node_links(T, s)
    ELSE LET ring == RingWalk(T, LinkTowards(T, m, s), LinkTowards(T, m, s), << >>)
         IN  [k \in 1..(Len(ring) - 1) |-> ring[k + 1]]

\* Every node of an earlier direction is visited before every node of a
\* later one.
ExploredInRingOrder(T, s, walk) ==
    \A m \in Range(T.nodes) :
        LET dirs == Directions(T, s, m)
        IN  \A j \in 1..Len(dirs), k \in 1..Len(dirs) :
                j < k =>
                    \A a \in PositionsIn(walk, SubtreeNodes(T, T.link[dirs[j]].outer)),
                       b \in PositionsIn(walk, SubtreeNodes(T, T.link[dirs[k]].outer)) :
                        a < b

\* The names of the nodes of a walk on ScenarioTree.
WalkNames(walk) == [k \in 1..Len(walk) |-> NodeNames[walk[k]]]

\* C21: a post-order traversal started at a node s of a well-formed tree
\* visits every node exactly once, s last, every other node after all the
\* nodes behind it as seen from s, and explores the neighbours of a node in
\* ring order, beginning at s with the direction of its primary link.  On
\* ((B,(D,E)C)A,F,(H,I)G)R the walk is BDECAFHIGR from R, FHIGRBDECA from
\* A, DECFHIGRAB from B and FHIGRBADEC from C.
C21_Postorder ==
    ( last.op = "postorder" /\ WellFormed(last.pre) ) =>
        LET s    == last.arg
            walk == last.cb
        IN  /\ last.err = "none"
            /\ tree = last.pre
            /\ Len(walk) = node_count(tree)
            /\ Range(walk) = Range(tree.nodes)
            /\ walk[Len(walk)] = s
            /\ \A i \in 1..Len(walk) :
                   walk[i] # s =>
                       \A j \in PositionsIn(walk, BehindFrom(tree, s, walk[i])) : j < i
            /\ ExploredInRingOrder(tree, s, walk)
            /\ ( tree = ScenarioTree /\ NodeNames[s] = "R" ) =>
                   WalkNames(walk) = << "B", "D", "E", "C", "A", "F", "H", "I", "G", "R" >>
            /\ ( tree = ScenarioTree /\ NodeNames[s] = "A" ) =>
                   WalkNames(walk) = << "F", "H", "I", "G", "R", "B", "D", "E", "C", "A" >>
            /\ ( tree = ScenarioTree /\ NodeNames[s] = "B" ) =>
                   WalkNames(walk) = << "D", "E", "C", "F", "H", "I", "G", "R", "A", "B" >>
            /\ ( tree = ScenarioTree /\ NodeNames[s] = "C" ) =>
                   WalkNames(walk) = << "F", "H", "I", "G", "R", "B", "A", "D", "E", "C" >>

\* A walk started at C of the scenario tree has been made.
C21_Witness ==
    /\ last.op = "postorder"
    /\ last.err = "none"
    /\ last.pre = ScenarioTree
    /\ NodeNames[last.arg] = "C"
    /\ Len(last.cb) = 10

\* C22: add_new_node( tree, edge, adjust_edges ) with a callback calls it
\* exactly once, with the target edge and the new edge, and only when all
\* the rewiring is done: at that moment the new node, its two links and the
\* new edge are in the tree, the target edge connects its former primary
\* node to the new node, the new edge connects the new node to the former
\* secondary node, outer mutuality holds for the four links involved, and
\* the tree is the one the call returns.
C22_EdgeSplitCallback ==
    ( /\ last.op = "add_new_node_edge"
      /\ last.with_cb
      /\ last.arg \in Range(last.pre.edges)
      /\ WellFormed(last.pre) ) =>
        /\ last.err = "none"
        /\ Len(last.at_cb) = 1
        /\ LET S        == last.at_cb[1]
               e        == last.arg
               mid_node == last.ret
               sec_edge == edge_count(last.pre) + 1
               pri_link == link_count(last.pre) + 1
               sec_link == link_count(last.pre) + 2
               old_p    == last.pre.edge[e].link_p
               old_s    == last.pre.edge[e].link_s
           IN  /\ last.cb = << e, sec_edge >>
               /\ mid_node \in Range(S.nodes) /\ mid_node \notin Range(last.pre.nodes)
               /\ sec_edge \in Range(S.edges)
               /\ { pri_link, sec_link } \subseteq Range(S.links)
               /\ S.link[pri_link].node = mid_node /\ S.link[sec_link].node = mid_node
               /\ S.edge[e].link_p = old_p
               /\ S.link[S.edge[e].link_p].node = last.pre.link[old_p].node
               /\ S.link[S.edge[e].link_s].node = mid_node
               /\ S.link[S.edge[sec_edge].link_p].node = mid_node
               /\ S.edge[sec_edge].link_s = old_s
               /\ S.link[S.edge[sec_edge].link_s].node = last.pre.link[old_s].node
               /\ \A l \in { old_p, old_s, pri_link, sec_link } :
                      /\ S.link[l].outer \in { old_p, old_s, pri_link, sec_link }
                      /\ S.link[l].outer # l
                      /\ S.link[S.link[l].outer].outer = l
                      /\ S.link[S.link[l].outer].edge = S.link[l].edge
               /\ S = tree

\* The callback of an edge split has been called.
C22_Witness ==
    /\ last.op = "add_new_node_edge"
    /\ last.with_cb
    /\ last.err = "none"
    /\ WellFormed(last.pre)
    /\ Len(last.at_cb) = 1
    /\ node_count(tree) = node_count(last.pre) + 1

\* C23: delete_linear_node( tree, node, adjust_edges ) with a callback, on a
\* node of degree 2, calls it exactly once and before any structural change:
\* at that moment the tree is the tree as it was before the call, the first
\* argument is the edge of the primary link of the node, which is retained,
\* and the second the edge of its other link, which is deleted afterwards.
C23_LinearDeleteCallback ==
    ( /\ last.op = "delete_linear_node"
      /\ last.with_cb
      /\ last.arg \in Range(last.pre.nodes)
      /\ WellFormed(last.pre)
      /\ degree(last.pre, last.arg) = 2 ) =>
        LET pr_link == last.pre.node[last.arg].link
            nx_link == last.pre.link[pr_link].next
        IN  /\ last.err = "none"
            /\ Len(last.at_cb) = 1
            /\ last.at_cb[1] = last.pre
            /\ last.cb = << last.pre.link[pr_link].edge, last.pre.link[nx_link].edge >>
            /\ last.cb[1] # last.cb[2]
            /\ last.moved.edges[last.cb[1]] # Dangling
            /\ last.moved.edges[last.cb[2]] = Dangling
            /\ edge_count(tree) = edge_count(last.pre) - 1

\* The callback of the deletion of a linear node has been called.
C23_Witness ==
    /\ last.op = "delete_linear_node"
    /\ last.with_cb
    /\ last.err = "none"
    /\ WellFormed(last.pre)
    /\ Len(last.at_cb) = 1
    /\ node_count(tree) = node_count(last.pre) - 1

\* C24: add_root_node( tree, edge ) on an edge of a well-formed tree returns
\* a new node of degree 2 seated on that edge, which is the root node after
\* the call: the root link is owned by it and is its primary link.  The
\* tree has one node and one edge more and two links more, and every edge,
\* the two halves of the former edge included, has its primary link on the
\* side of the new root node.
C24_AddRootNode ==
    ( /\ last.op = "add_root_node"
      /\ last.arg \in Range(last.pre.edges)
      /\ WellFormed(last.pre) ) =>
        LET n     == last.ret
            old_p == last.pre.edge[last.arg].link_p
            old_s == last.pre.edge[last.arg].link_s
        IN  /\ last.err = "none"
            /\ n \in Range(tree.nodes) /\ n \notin Range(last.pre.nodes)
            /\ degree(tree, n) = 2
            /\ Neighbours(n) = { last.pre.link[old_p].node, last.pre.link[old_s].node }
            /\ last.arg \in { tree.link[l].edge : l \in OwnedLinks(n) }
            /\ RootInRange(tree)
            /\ root_node(tree) = n
            /\ root_link(tree) = tree.node[n].link
            /\ node_count(tree) = node_count(last.pre) + 1
            /\ edge_count(tree) = edge_count(last.pre) + 1
            /\ link_count(tree) = link_count(last.pre) + 2
            /\ \A e \in Range(tree.edges) :
                   /\ tree.edge[e].link_p \in Range(tree.links)
                   /\ tree.edge[e].link_s \in Range(tree.links)
                   /\ tree.link[tree.edge[e].link_p].outer = tree.edge[e].link_s
                   /\ tree.link[tree.edge[e].link_p].edge = e
                   /\ tree.link[tree.edge[e].link_s].edge = e
                   /\ n \in SubtreeNodes(tree, tree.edge[e].link_p)
                   /\ n \notin SubtreeNodes(tree, tree.edge[e].link_s)

\* A root node has been added on an edge that did not touch the root node.
C24_Witness ==
    /\ last.op = "add_root_node"
    /\ last.err = "none"
    /\ WellFormed(last.pre)
    /\ last.arg \in Range(last.pre.edges)
    /\ last.pre.link[last.pre.edge[last.arg].link_p].node # root_node(last.pre)
    /\ root_node(tree) = last.ret

\* C25: in every reachable state the root node is the first element of the
\* node vector and the root link the first element of the link vector.
C25_RootFirst ==
    /\ RootInRange(tree)
    /\ root_link(tree) = link_at(tree, 0)
    /\ root_node(tree) = node_at(tree, 0)

\* C26: after any sequence of calls that returned, made on a well-formed
\* tree, the root link index is in range and the root link is the primary
\* link of the root node; in particular after delete_leaf_node and
\* delete_subtree have removed an element attached to the root node through
\* the root link.
C26_RootLinkAgreement ==
    ( last.err = "none" /\ ( last.op # "none" => WellFormed(last.pre) ) ) =>
        /\ RootInRange(tree)
        /\ tree.node[root_node(tree)].link = root_link(tree)

\* C27: delete_leaf_node and delete_linear_node called on a node of a
\* well-formed tree that is not the root node leave the root designation as
\* it was: the root link is the same link, at its new index, and the root
\* node the same node; also for a leaf attached to the root node through the
\* root link.
C27_RootFrame ==
    ( /\ last.op \in { "delete_leaf_node", "delete_linear_node" }
      /\ last.err = "none"
      /\ WellFormed(last.pre)
      /\ last.arg \in Range(last.pre.nodes)
      /\ last.arg # root_node(last.pre) ) =>
        /\ last.moved.links[root_link(last.pre)] # Dangling
        /\ RootInRange(tree)
        /\ root_link(tree) = last.moved.links[root_link(last.pre)]
        /\ root_node(tree) = last.moved.nodes[root_node(last.pre)]

\* C28: delete_linear_node on a node n of degree 2 of a well-formed tree
\* that is not the root node removes one node, one edge and two links: n,
\* its two links and the edge on the side of n away from the root.  The two
\* former neighbour links are then the outer of each other and both belong
\* to the retained edge, the edge of the former primary link of n, whose
\* primary link is the neighbour link on the root side and whose secondary
\* link is the neighbour link on the far side.
C28_DeleteLinearNode ==
    ( /\ last.op = "delete_linear_node"
      /\ WellFormed(last.pre)
      /\ last.arg \in Range(last.pre.nodes)
      /\ last.arg # root_node(last.pre)
      /\ degree(last.pre, last.arg) = 2 ) =>
        LET P          == last.pre
            pr_link    == P.node[last.arg].link
            nx_link    == P.link[pr_link].next
            adj_link_p == last.moved.links[P.link[pr_link].outer]
            adj_link_d == last.moved.links[P.link[nx_link].outer]
            retained   == last.moved.edges[P.link[pr_link].edge]
        IN  /\ last.err = "none"
            /\ node_count(tree) = node_count(P) - 1
            /\ edge_count(tree) = edge_count(P) - 1
            /\ link_count(tree) = link_count(P) - 2
            /\ GoneNodes = { last.arg }
            /\ GoneLinks = { pr_link, nx_link }
            /\ GoneEdges = { P.link[nx_link].edge }
            /\ root_node(P) \notin SubtreeNodes(P, P.link[nx_link].outer)
            /\ adj_link_p \in Range(tree.links)
            /\ adj_link_d \in Range(tree.links)
            /\ retained \in Range(tree.edges)
            /\ tree.link[adj_link_p].outer = adj_link_d
            /\ tree.link[adj_link_d].outer = adj_link_p
            /\ tree.link[adj_link_p].edge = retained
            /\ tree.link[adj_link_d].edge = retained
            /\ tree.edge[retained].link_p = adj_link_p
            /\ tree.edge[retained].link_s = adj_link_d
            /\ root_node(tree) \in SubtreeNodes(tree, adj_link_p)

\* A linear node that is not the root node has been deleted.
C28_Witness ==
    /\ last.op = "delete_linear_node"
    /\ last.err = "none"
    /\ WellFormed(last.pre)
    /\ last.arg \in Range(last.pre.nodes)
    /\ last.arg # root_node(last.pre)
    /\ node_count(tree) = node_count(last.pre) - 1

\* C29: add_new_node( tree, node ) on a node n of a well-formed tree appends
\* one node, one edge and two links, whose indices are the previous counts,
\* and returns the new node, which has degree 1 and a primary link that is
\* its own next.  The new link at n comes right before the primary link of
\* n in its ring: its next is that primary link, and the link that preceded
\* the primary link now precedes the new link; no other next changes.  The
\* primary link of the new edge is the new link at n, its secondary link the
\* link of the new node.
C29_AddNewNodeAtNode ==
    ( /\ last.op = "add_new_node_node"
      /\ last.arg \in Range(last.pre.nodes)
      /\ WellFormed(last.pre) ) =>
        LET P        == last.pre
            n        == last.arg
            con_link == link_count(P) + 1
            end_link == link_count(P) + 2
            end_node == node_count(P) + 1
            con_edge == edge_count(P) + 1
            up_link  == P.node[n].link
            ring     == node_links(P, n)
            before   == ring[Len(ring)]
        IN  /\ last.err = "none"
            /\ tree.nodes = Append(P.nodes, end_node)
            /\ tree.edges = Append(P.edges, con_edge)
            /\ tree.links = Append(Append(P.links, con_link), end_link)
            /\ tree.node[end_node].index = node_count(P)
            /\ tree.edge[con_edge].index = edge_count(P)
            /\ tree.link[con_link].index = link_count(P)
            /\ tree.link[end_link].index = link_count(P) + 1
            /\ last.ret = end_node
            /\ degree(tree, end_node) = 1
            /\ tree.node[end_node].link = end_link
            /\ tree.link[end_link].next = end_link
            /\ tree.link[end_link].node = end_node
            /\ tree.link[con_link].node = n
            /\ tree.link[con_link].next = up_link
            /\ tree.node[n].link = up_link
            /\ tree.link[before].next = con_link
            /\ \A l \in Range(P.links) \ { before } : tree.link[l].next = P.link[l].next
            /\ node_links(tree, n) = Append(ring, con_link)
            /\ tree.link[con_link].outer = end_link
            /\ tree.link[end_link].outer = con_link
            /\ tree.link[con_link].edge = con_edge
            /\ tree.link[end_link].edge = con_edge
            /\ tree.edge[con_edge].link_p = con_link
            /\ tree.edge[con_edge].link_s = end_link

\* A leaf has been added to a node that had two links or more.
C29_Witness ==
    /\ last.op = "add_new_node_node"
    /\ last.err = "none"
    /\ WellFormed(last.pre)
    /\ last.arg \in Range(last.pre.nodes)
    /\ degree(last.pre, last.arg) >= 2
    /\ node_count(tree) = node_count(last.pre) + 1

\* C30: add_new_node( tree, edge ) on an edge e of a well-formed tree
\* appends one node, one edge and two links and returns a node of degree 2
\* whose primary link faces the former primary side of e.  Afterwards e has
\* its primary link as before and the primary link of the new node as
\* secondary link; the new edge has the other link of the new node as
\* primary link and the former secondary link of e as secondary link; that
\* link belongs to the new edge; and the rings of the two former end nodes
\* of e are as before.
C30_AddNewNodeAtEdge ==
    ( /\ last.op = "add_new_node_edge"
      /\ last.arg \in Range(last.pre.edges)
      /\ WellFormed(last.pre) ) =>
        LET P        == last.pre
            e        == last.arg
            pri_link == link_count(P) + 1
            sec_link == link_count(P) + 2
            mid_node == node_count(P) + 1
            sec_edge == edge_count(P) + 1
            old_p    == P.edge[e].link_p
            old_s    == P.edge[e].link_s
        IN  /\ last.err = "none"
            /\ tree.nodes = Append(P.nodes, mid_node)
            /\ tree.edges = Append(P.edges, sec_edge)
            /\ tree.links = Append(Append(P.links, pri_link), sec_link)
            /\ last.ret = mid_node
            /\ node_links(tree, mid_node) = << pri_link, sec_link >>
            /\ tree.link[pri_link].node = mid_node
            /\ tree.link[sec_link].node = mid_node
            /\ tree.link[pri_link].outer = old_p
            /\ tree.link[old_p].outer = pri_link
            /\ tree.link[sec_link].outer = old_s
            /\ tree.link[old_s].outer = sec_link
            /\ tree.edge[e].link_p = old_p
            /\ tree.edge[e].link_s = pri_link
            /\ tree.link[old_p].edge = e
            /\ tree.link[pri_link].edge = e
            /\ tree.edge[sec_edge].link_p = sec_link
            /\ tree.edge[sec_edge].link_s = old_s
            /\ tree.link[sec_link].edge = sec_edge
            /\ tree.link[old_s].edge = sec_edge
            /\ \A x \in { P.link[old_p].node, P.link[old_s].node } :
                   /\ tree.node[x].link = P.node[x].link
                   /\ node_links(tree, x) = node_links(P, x)

\* A node has been added on an edge whose end nodes both had other links.
C30_Witness ==
    /\ last.op = "add_new_node_edge"
    /\ last.err = "none"
    /\ WellFormed(last.pre)
    /\ last.arg \in Range(last.pre.edges)
    /\ degree(last.pre, last.pre.link[last.pre.edge[last.arg].link_p].node) >= 2
    /\ degree(tree, last.ret) = 2

\* A tree without the next references of its links.
WithoutNext(T) ==
    [T EXCEPT !.link = [l \in DOMAIN T.link |-> [T.link[l] EXCEPT !.next = Dangling]]]

\* C31: ladderize on a well-formed tree changes next references only.  The
\* ring of every node holds the same links as before and is one cycle, which
\* starts at and returns to the primary link of the node, itself unchanged;
\* indices, the three vectors, outer, node and edge of every link, both links
\* of every edge and the root link index are as before; the link of a leaf
\* is still its own next.
C31_LadderizeFrame ==
    ( last.op = "ladderize" /\ WellFormed(last.pre) ) =>
        /\ last.err = "none"
        /\ WithoutNext(tree) = WithoutNext(last.pre)
        /\ \A n \in Range(tree.nodes) :
               LET ring == node_links(tree, n)
               IN  /\ Len(ring) = LinksOwned(tree, n)
                   /\ Range(ring) = Range(node_links(last.pre, n))
                   /\ Range(ring) = { l \in Range(tree.links) : tree.link[l].node = n }
                   /\ ring[1] = last.pre.node[n].link
                   /\ tree.link[ring[Len(ring)]].next = last.pre.node[n].link
                   /\ is_leaf(last.pre, n) =>
                          tree.link[tree.node[n].link].next = tree.node[n].link

\* ladderize has changed the order of a ring.
C31_Witness ==
    /\ last.op = "ladderize"
    /\ last.err = "none"
    /\ WellFormed(last.pre)
    /\ tree # last.pre
    /\ WithoutNext(tree) = WithoutNext(last.pre)

\* A tree whose root has four neighbours, two of them with a child of their
\* own: (A,(G)B,(F)C,D)R.  Rings of this tree have children of equal size
\* next to children of another size.
TieTree == Grown(InitTree, << 1, 1, 4, 3 >>)

InitTies ==
    /\ tree = TieTree
    /\ last = NoCall
    /\ deletions = 0

NextTies ==
    \/ Continue
    \/ LadderizeAgain
    \/ RerootLink
    \/ Ladderize
    \/ DeleteLeafNode
    \/ DeleteSubtree

SpecTies == InitTies /\ [][NextTies]_vars

\* The position of a link in a ring.
RingPosition(ring, l) == CHOOSE k \in 1..Len(ring) : ring[k] = l

\* C32: ladderize is stable.  For every node of a well-formed tree, two
\* links of its ring other than the primary link whose neighbours have
\* subtrees of equal size are in the same relative ring order after
\* ladderize, in either order, as before.
C32_LadderizeStable ==
    ( last.op = "ladderize" /\ WellFormed(last.pre) ) =>
        /\ last.err = "none"
        /\ \A n \in Range(tree.nodes) :
               LET old == node_links(last.pre, n)
                   new == node_links(tree, n)
               IN  \A a \in Range(old), b \in Range(old) :
                       ( /\ a # last.pre.node[n].link
                         /\ b # last.pre.node[n].link
                         /\ Cardinality(SubtreeNodes(last.pre, last.pre.link[a].outer))
                              = Cardinality(SubtreeNodes(last.pre, last.pre.link[b].outer))
                         /\ RingPosition(old, a) < RingPosition(old, b) ) =>
                           /\ a \in Range(new) /\ b \in Range(new)
                           /\ RingPosition(new, a) < RingPosition(new, b)

\* ladderize has reordered the ring of a node that has two children of
\* equal size.
C32_Witness ==
    /\ last.op = "ladderize"
    /\ last.err = "none"
    /\ WellFormed(last.pre)
    /\ \E n \in Range(tree.nodes) :
           /\ node_links(tree, n) # node_links(last.pre, n)
           /\ \E a \in Range(node_links(tree, n)), b \in Range(node_links(tree, n)) :
                  /\ a # b
                  /\ a # tree.node[n].link
                  /\ b # tree.node[n].link
                  /\ Cardinality(SubtreeNodes(tree, tree.link[a].outer))
                       = Cardinality(SubtreeNodes(tree, tree.link[b].outer))

\* The surviving elements of one collection keep their relative order, and
\* the new index of each is its old index minus the number of deleted
\* elements that had a smaller old index.
OrderPreserved(old_fields, new_fields, moved) ==
    LET kept == { x \in DOMAIN moved : moved[x] # Dangling }
        gone == { x \in DOMAIN moved : moved[x] = Dangling }
    IN  /\ \A x \in kept, y \in kept :
               old_fields[x].index < old_fields[y].index => moved[x] < moved[y]
        /\ \A x \in kept :
               new_fields[moved[x]].index
                   = old_fields[x].index
                     - Cardinality({ d \in gone : old_fields[d].index < old_fields[x].index })

\* C33: the compaction of delete_subtree preserves the relative order.  In
\* each of the three collections of a well-formed tree the surviving
\* elements are in the same relative order as before, and the new index of
\* each surviving element is its old index minus the number of deleted
\* elements of that collection that had a smaller old index.
C33_CompactionOrder ==
    ( last.op = "delete_subtree" /\ last.err = "none" /\ WellFormed(last.pre) ) =>
        /\ OrderPreserved(last.pre.node, tree.node, last.moved.nodes)
        /\ OrderPreserved(last.pre.edge, tree.edge, last.moved.edges)
        /\ OrderPreserved(last.pre.link, tree.link, last.moved.links)

\* delete_subtree has removed elements from the middle of the three
\* collections: in each a surviving element has moved to a smaller index,
\* and another one has kept its index.
C33_Witness ==
    /\ last.op = "delete_subtree"
    /\ last.err = "none"
    /\ WellFormed(last.pre)
    /\ \E x \in DOMAIN last.moved.nodes :
           /\ last.moved.nodes[x] # Dangling
           /\ tree.node[last.moved.nodes[x]].index < last.pre.node[x].index
    /\ \E x \in DOMAIN last.moved.edges :
           /\ last.moved.edges[x] # Dangling
           /\ tree.edge[last.moved.edges[x]].index < last.pre.edge[x].index
    /\ \E x \in DOMAIN last.moved.links :
           /\ last.moved.links[x] # Dangling
           /\ tree.link[last.moved.links[x]].index < last.pre.link[x].index
    /\ \E x \in DOMAIN last.moved.links :
           /\ last.moved.links[x] # Dangling
           /\ tree.link[last.moved.links[x]].index = last.pre.link[x].index

\* C34: the counts of the elements.  In every state reached by calls of the
\* public functions on a well-formed tree there is one node more than there
\* are edges, and there are two links for every edge.
C34_ElementCounts ==
    /\ node_count(tree) = edge_count(tree) + 1
    /\ link_count(tree) = 2 * edge_count(tree)

\* An insertion has returned on a well-formed tree from which a deletion
\* had removed elements before.
C34_Witness ==
    /\ deletions = 1
    /\ last # NoCall
    /\ last.err = "none"
    /\ WellFormed(last.pre)
    /\ node_count(tree) = node_count(last.pre) + 1
    /\ edge_count(tree) = edge_count(last.pre) + 1
    /\ link_count(tree) = link_count(last.pre) + 2

\* Every link refers to an edge of the tree, a link and its outer link refer
\* to the same edge, the primary and the secondary link of that edge are the
\* link and its outer link, and every edge is referred to by two links.
LinkEdgeConsistent(T) ==
    /\ \A l \in Range(T.links) :
           /\ T.link[l].edge \in Range(T.edges)
           /\ T.link[l].outer \in Range(T.links)
           /\ T.link[T.link[l].outer].edge = T.link[l].edge
           /\ { T.edge[T.link[l].edge].link_p, T.edge[T.link[l].edge].link_s }
                  = { l, T.link[l].outer }
    /\ \A e \in Range(T.edges) :
           Cardinality({ l \in Range(T.links) : T.link[l].edge = e }) = 2

\* C35: links and edges are consistent.  After a call of a public function
\* that returned on a well-formed tree, every link refers to an edge that is
\* in the tree, a link and its outer link refer to the same edge, the primary
\* and the secondary link of that edge are this link and its outer link, and
\* every edge is referred to by exactly two links.
C35_LinkEdgeConsistency ==
    ( last # NoCall /\ last.err = "none" /\ WellFormed(last.pre) ) =>
        LinkEdgeConsistent(tree)

\* The links that a deletion removed from a node that survives.
AttachmentLinks ==
    { l \in DOMAIN last.moved.links :
        /\ last.moved.links[l] = Dangling
        /\ last.moved.nodes[last.pre.link[l].node] # Dangling }

\* C36: a deletion leaves the surviving adjacency untouched except at the
\* attachment point.  After delete_leaf_node or delete_subtree on a
\* well-formed tree one link, the attachment link, is removed from the nodes
\* that survive; every surviving link belongs to the node it belonged to and
\* is followed in its ring by the link that followed it before, or, where
\* that was the attachment link, by the link that followed the attachment
\* link.
C36_SurvivingRings ==
    ( /\ last.op \in { "delete_leaf_node", "delete_subtree" }
      /\ last.err = "none"
      /\ WellFormed(last.pre) ) =>
        /\ Cardinality(AttachmentLinks) = 1
        /\ \A l \in DOMAIN last.moved.links :
               last.moved.links[l] # Dangling =>
                   LET following == last.pre.link[l].next
                       spliced == IF following \in AttachmentLinks
                                  THEN last.pre.link[following].next
                                  ELSE following
                   IN  /\ last.moved.links[spliced] # Dangling
                       /\ tree.link[last.moved.links[l]].next = last.moved.links[spliced]
                       /\ tree.link[last.moved.links[l]].node
                              = last.moved.nodes[last.pre.link[l].node]
        /\ \A n \in DOMAIN last.moved.nodes :
               last.moved.nodes[n] # Dangling =>
                   { l \in Range(tree.links) : tree.link[l].node = last.moved.nodes[n] }
                       = { last.moved.links[l] :
                             l \in { x \in Range(last.pre.links) \ AttachmentLinks :
                                       last.pre.link[x].node = n } }

\* A deletion has removed the attachment link from a ring of four links,
\* in a tree where another node with more than one link survives.
C36_Witness ==
    /\ last.op \in { "delete_leaf_node", "delete_subtree" }
    /\ last.err = "none"
    /\ WellFormed(last.pre)
    /\ \E a \in AttachmentLinks :
           /\ LinksOwned(last.pre, last.pre.link[a].node) = 4
           /\ \E n \in DOMAIN last.moved.nodes :
                  /\ n # last.pre.link[a].node
                  /\ last.moved.nodes[n] # Dangling
                  /\ LinksOwned(last.pre, n) > 1

C38_SplitMergeRoundTrip ==
    ( last.op = "split_then_merge" /\ WellFormed(last.pre) ) =>
        /\ last.err = "none"
        /\ tree = last.pre
        /\ \A l \in DOMAIN last.moved.links : last.moved.links[l] = l
        /\ \A n \in DOMAIN last.moved.nodes : last.moved.nodes[n] = n
        /\ \A e \in DOMAIN last.moved.edges : last.moved.edges[e] = e

\* An edge that does not lead to the root node has been split and merged
\* again.
C38_Witness ==
    /\ last.op = "split_then_merge"
    /\ last.err = "none"
    /\ WellFormed(last.pre)
    /\ last.arg \in Range(last.pre.edges)
    /\ last.pre.link[last.pre.edge[last.arg].link_p].node # root_node(last.pre)
    /\ tree = last.pre

\* C39: ladderize is idempotent.  On a well-formed tree, and for either
\* order, ladderize called twice with the same order leaves the same next
\* reference in every link as ladderize called once.
C39_LadderizeIdempotent ==
    ( last.op = "ladderize_twice" /\ WellFormed(last.pre) ) =>
        LET once == Renamed(ladderize(last.pre, last.arg = 1).t)
        IN  /\ last.err = "none"
            /\ \A l \in Range(tree.links) : tree.link[l].next = once.link[l].next
            /\ tree = once

\* ladderize has been called twice on a tree in which the first call
\* changed the order of a ring.
C39_Witness ==
    /\ last.op = "ladderize_twice"
    /\ last.err = "none"
    /\ WellFormed(last.pre)
    /\ \E l \in Range(tree.links) : tree.link[l].next # last.pre.link[l].next

====
